---- MODULE Spec2Model ----
(***************************************************************************)
(* Opening-to-wall anchoring and wall segmentation of the floor-plan tool. *)
(*                                                                         *)
(* Lengths are integers counted in grid units of 1/U millimetre, so that   *)
(* sub-millimetre coordinates and Math.round are representable.  Walls of  *)
(* the model are axis-parallel, which makes Math.hypot of a wall and its   *)
(* unit direction exact; openings may have any direction, and every test   *)
(* on an opening's (possibly irrational) length is made on exact squares.  *)
(***************************************************************************)
EXTENDS Integers, Naturals, Sequences, FiniteSets, TLC

VARIABLES
    plan,        \* ThreeDView prop `plan`: [walls, doors, windows] or NoPlan
    settings,    \* App state view3dSettings
    scene,       \* what the ThreeDView effect last built
    phVersion,   \* ThreeDView state phVersion: bumped when an asset has loaded
    source,      \* interval algebra: the current list of disjoint intervals
    applied,     \* interval algebra: the cuts subtracted so far, in order
    before,      \* interval algebra: the list before the last subtraction
    probe,       \* anchoring: the walls and the opening handed to the operations
    answer,      \* anchoring: the operation applied last and what it returned
    history,     \* usePlanModeState: the reducer state [past, present, future]
    activeTool,  \* App state activeTool
    drawPhase,   \* PlanModeCanvas state drawPhase
    toolEffectDue, \* PlanModeCanvas: the effect on [activeTool] has yet to run
    script       \* usePlanState: the script text, as a list of lines

view3dVars == <<plan, settings, scene, phVersion>>
intervalVars == <<source, applied, before>>
anchorVars == <<probe, answer>>
editorVars == <<activeTool, drawPhase, toolEffectDue>>
planModeVars == <<history, activeTool, drawPhase, toolEffectDue, script>>
vars == <<plan, settings, scene, phVersion, source, applied, before, probe, answer,
          history, activeTool, drawPhase, toolEffectDue, script>>

(***************************************************************************)
(* Units and exact arithmetic                                              *)
(***************************************************************************)

\* Grid units per millimetre.
U == 2

Mm(x) == x * U

Abs(x) == IF x < 0 THEN -x ELSE x

Min(a, b) == IF a < b THEN a ELSE b

Max(a, b) == IF a > b THEN a ELSE b

\* Radix of the two-limb products below (2^15).
Radix == 2 ^ 15

\* The product a*b of naturals below 2^30 as three limbs, most significant first.
WideMul(a, b) ==
    LET a1 == a \div Radix
        a0 == a % Radix
        b1 == b \div Radix
        b0 == b % Radix
        lo == a0 * b0
        mid == a1 * b0 + a0 * b1 + (lo \div Radix)
        hi == a1 * b1 + (mid \div Radix)
    IN  <<hi, mid % Radix, lo % Radix>>

WideLess(p, q) ==
    \/ p[1] < q[1]
    \/ p[1] = q[1] /\ p[2] < q[2]
    \/ p[1] = q[1] /\ p[2] = q[2] /\ p[3] < q[3]

\* a*b < c*d without overflowing 32-bit integers.
ProdLess(a, b, c, d) == WideLess(WideMul(a, b), WideMul(c, d))

RECURSIVE SqrtSearch(_, _, _)
SqrtSearch(n, lo, hi) ==
    IF lo >= hi THEN lo
    ELSE LET mid == (lo + hi + 1) \div 2
         IN  IF mid * mid <= n THEN SqrtSearch(n, mid, hi)
                               ELSE SqrtSearch(n, lo, mid - 1)

\* Math.hypot, exact whenever dx^2 + dy^2 is a perfect square (every segment
\* whose length the model uses as a number is chosen so).
Hypot(dx, dy) ==
    IF dy = 0 THEN Abs(dx)
    ELSE IF dx = 0 THEN Abs(dy)
    ELSE SqrtSearch(dx * dx + dy * dy, 0, Abs(dx) + Abs(dy))

\* Math.round on a value given in grid units: nearest whole millimetre,
\* halves rounded towards +infinity.
Round(x) == ((2 * x + U) \div (2 * U)) * U

\* Mutant: the lower limit is not applied.
clamp_NoLower(value, min, max) == Min(max, value)

\* Mutant: the upper limit is not applied.
clamp_NoUpper(value, min, max) == Max(min, value)

clamp(value, min, max) == Min(max, Max(min, value))

\* `const name = value;` followed by the statements that use name: the value is
\* computed once and handed on.
Const(value, Rest(_)) == Rest(value)

(***************************************************************************)
(* Interval algebra                                                        *)
(***************************************************************************)

RECURSIVE SubtractFrom(_, _, _)
SubtractFrom(src, cutStart, cutEnd) ==
    IF src = <<>> THEN <<>>
    ELSE LET start == Head(src)[1]
             end == Head(src)[2]
             rest == SubtractFrom(Tail(src), cutStart, cutEnd)
         IN  IF cutEnd <= start \/ cutStart >= end
             THEN <<Head(src)>> \o rest
             ELSE (IF cutStart > start THEN <<(<<start, cutStart>>)>> ELSE <<>>)
                  \o (IF cutEnd < end THEN <<(<<cutEnd, end>>)>> ELSE <<>>)
                  \o rest

\* Mutant: the remainder above the cut is forgotten.
RECURSIVE SubtractFromDropUpper(_, _, _)
SubtractFromDropUpper(src, cutStart, cutEnd) ==
    IF src = <<>> THEN <<>>
    ELSE LET start == Head(src)[1]
             end == Head(src)[2]
             rest == SubtractFromDropUpper(Tail(src), cutStart, cutEnd)
         IN  IF cutEnd <= start \/ cutStart >= end
             THEN <<Head(src)>> \o rest
             ELSE (IF cutStart > start THEN <<(<<start, cutStart>>)>> ELSE <<>>) \o rest

subtractInterval_DropUpper(src, cut) ==
    IF cut[2] <= cut[1] THEN src ELSE SubtractFromDropUpper(src, cut[1], cut[2])

\* Mutant: the two remainders end at the wrong ends of the cut.
RECURSIVE SubtractFromSwapped(_, _, _)
SubtractFromSwapped(src, cutStart, cutEnd) ==
    IF src = <<>> THEN <<>>
    ELSE LET start == Head(src)[1]
             end == Head(src)[2]
             rest == SubtractFromSwapped(Tail(src), cutStart, cutEnd)
         IN  IF cutEnd <= start \/ cutStart >= end
             THEN <<Head(src)>> \o rest
             ELSE (IF cutStart > start THEN <<(<<start, cutEnd>>)>> ELSE <<>>)
                  \o (IF cutEnd < end THEN <<(<<cutStart, end>>)>> ELSE <<>>)
                  \o rest

subtractInterval_Swapped(src, cut) ==
    IF cut[2] <= cut[1] THEN src ELSE SubtractFromSwapped(src, cut[1], cut[2])

\* Mutant: a cut that is empty or reversed is not recognised.
subtractInterval_Unguarded(src, cut) == SubtractFrom(src, cut[1], cut[2])

\* Mutant: only the first interval of the list is cut.
subtractInterval_HeadOnly(src, cut) ==
    IF cut[2] <= cut[1] \/ src = <<>> THEN src
    ELSE SubtractFrom(<<Head(src)>>, cut[1], cut[2]) \o Tail(src)

subtractInterval(src, cut) ==
    IF cut[2] <= cut[1] THEN src ELSE SubtractFrom(src, cut[1], cut[2])

(***************************************************************************)
(* Opening projector (3D views)                                            *)
(***************************************************************************)

\* The absent result (null) of a projection or an anchoring.
NULL == [ok |-> FALSE]

\* Default of projectOpeningToWall's minAlignment parameter, 0.9, as <<num, den>>.
DefaultMinAlignment == <<9, 10>>

\* Mutant: anchoring accepts an alignment of 0.75.
AnchorMinAlignment_Loose == <<3, 4>>

\* The minAlignment anchorOpeningPose passes, 0.84, as <<num, den>>.
AnchorMinAlignment == <<21, 25>>

\* Floor of the lateral tolerance, Math.max(wall.thickness * 0.75, 120).
MaxDistanceFloorMm == 120

\* Shortest opening projectOpeningToWall accepts.
MinOpeningLengthMm == 20

\* Shortest span left after clamping that projectOpeningToWall accepts.
MinProjectedLengthMm == 120

\* Shortest wall any algorithm accepts.
MinWallLengthMm == 1

\* alignment < minAlignment, where alignment = dot / sqrt(lenSq) and dot >= 0:
\* (den * dot)^2 < num^2 * lenSq.
AlignmentBelow(dot, lenSq, minAlignment) ==
    ProdLess(minAlignment[2] * dot, minAlignment[2] * dot,
             minAlignment[1] * minAlignment[1], lenSq)

\* Math.max(distStart, distEnd) > Math.max(thickness * 0.75, floorMm), times 4.
TooFarFromWall(distStart, distEnd, thickness, floorMm) ==
    4 * Max(distStart, distEnd) > Max(3 * thickness, 4 * Mm(floorMm))

\* Mutant: neither the opening's length nor the clipped span is tested.
projectOpeningToWall_NoLengthTests(wall, start, end, minAlignment) ==
    LET dx == wall.end[1] - wall.start[1]
        dy == wall.end[2] - wall.start[2]
        wallLengthMm == Hypot(dx, dy)
    IN  IF wallLengthMm < Mm(MinWallLengthMm) THEN NULL
        ELSE
        LET ux == dx \div wallLengthMm
            uy == dy \div wallLengthMm
            odx == end[1] - start[1]
            ody == end[2] - start[2]
            dot == Abs(odx * ux + ody * uy)
        IN  IF AlignmentBelow(dot, odx * odx + ody * ody, minAlignment) THEN NULL
            ELSE
            LET rsx == start[1] - wall.start[1]
                rsy == start[2] - wall.start[2]
                rex == end[1] - wall.start[1]
                rey == end[2] - wall.start[2]
                projStartRaw == rsx * ux + rsy * uy
                projEndRaw == rex * ux + rey * uy
                distStart == Abs(rsx * (-uy) + rsy * ux)
                distEnd == Abs(rex * (-uy) + rey * ux)
                startMm == clamp(Min(projStartRaw, projEndRaw), 0, wallLengthMm)
                endMm == clamp(Max(projStartRaw, projEndRaw), 0, wallLengthMm)
            IN  IF TooFarFromWall(distStart, distEnd, wall.thickness, MaxDistanceFloorMm)
                THEN NULL
                ELSE [ok |-> TRUE,
                      startMm |-> startMm,
                      endMm |-> endMm,
                      startPoint |-> <<wall.start[1] + ux * startMm,
                                       wall.start[2] + uy * startMm>>,
                      endPoint |-> <<wall.start[1] + ux * endMm,
                                     wall.start[2] + uy * endMm>>,
                      distStartMm |-> distStart,
                      distEndMm |-> distEnd,
                      alignment |-> <<dot, odx * odx + ody * ody>>,
                      wallAngleRad |-> <<ux, uy>>]

projectOpeningToWall(wall, start, end, minAlignment) ==
    LET dx == wall.end[1] - wall.start[1]
        dy == wall.end[2] - wall.start[2]
        wallLengthMm == Hypot(dx, dy)
    IN  IF wallLengthMm < Mm(MinWallLengthMm) THEN NULL
        ELSE
        LET ux == dx \div wallLengthMm
            uy == dy \div wallLengthMm
            odx == end[1] - start[1]
            ody == end[2] - start[2]
            openingLengthSq == odx * odx + ody * ody
        IN  IF openingLengthSq < Mm(MinOpeningLengthMm) * Mm(MinOpeningLengthMm) THEN NULL
            ELSE
            LET dot == Abs(odx * ux + ody * uy)
            IN  IF AlignmentBelow(dot, openingLengthSq, minAlignment) THEN NULL
                ELSE
                LET rsx == start[1] - wall.start[1]
                    rsy == start[2] - wall.start[2]
                    rex == end[1] - wall.start[1]
                    rey == end[2] - wall.start[2]
                    projStartRaw == rsx * ux + rsy * uy
                    projEndRaw == rex * ux + rey * uy
                    distStart == Abs(rsx * (-uy) + rsy * ux)
                    distEnd == Abs(rex * (-uy) + rey * ux)
                IN  IF TooFarFromWall(distStart, distEnd, wall.thickness, MaxDistanceFloorMm)
                    THEN NULL
                    ELSE
                    LET startMm == clamp(Min(projStartRaw, projEndRaw), 0, wallLengthMm)
                        endMm == clamp(Max(projStartRaw, projEndRaw), 0, wallLengthMm)
                    IN  IF endMm - startMm < Mm(MinProjectedLengthMm) THEN NULL
                        ELSE [ok |-> TRUE,
                              startMm |-> startMm,
                              endMm |-> endMm,
                              startPoint |-> <<wall.start[1] + ux * startMm,
                                               wall.start[2] + uy * startMm>>,
                              endPoint |-> <<wall.start[1] + ux * endMm,
                                             wall.start[2] + uy * endMm>>,
                              distStartMm |-> distStart,
                              distEndMm |-> distEnd,
                              alignment |-> <<dot, openingLengthSq>>,
                              wallAngleRad |-> <<ux, uy>>]

(***************************************************************************)
(* Openings of one wall and their height bands                             *)
(***************************************************************************)

MinWallHeightMm == 1800

MaxWallHeightMm == 6000

MinDoorHeightMm == 1000

DoorHeadroomMm == 40

SillHeadroomMm == 200

DefaultWindowHeightMm == 1200

MinWindowHeightMm == 300

WindowHeadroomMm == 50

MinUsableWindowHeightMm == 120

\* maybeAddOpening: the opening as a one-element list, or nothing.
maybeAddOpening(wall, start, end, bottomMm, heightMm, wallHeightMm) ==
    Const(projectOpeningToWall(wall, start, end, DefaultMinAlignment), LAMBDA projected :
        IF ~projected.ok THEN <<>>
        ELSE LET normalizedBottom == clamp(bottomMm, 0, wallHeightMm - Mm(1))
                 normalizedTop == clamp(bottomMm + heightMm, normalizedBottom + Mm(1),
                                        wallHeightMm)
             IN  <<[startMm |-> projected.startMm,
                    endMm |-> projected.endMm,
                    bottomMm |-> normalizedBottom,
                    topMm |-> normalizedTop]>>)

RECURSIVE DoorOpenings(_, _, _, _)
DoorOpenings(wall, doors, safeDoorHeight, wallHeightMm) ==
    IF doors = <<>> THEN <<>>
    ELSE maybeAddOpening(wall, Head(doors).start, Head(doors).end, 0, safeDoorHeight,
                         wallHeightMm)
         \o DoorOpenings(wall, Tail(doors), safeDoorHeight, wallHeightMm)

\* win.height || 1200: a height of 0 (or none) falls back to the default.
WindowHeightOr1200(win) ==
    IF win.height = 0 THEN Mm(DefaultWindowHeightMm) ELSE win.height

\* Mutant: the 50 mm left under the ceiling are not taken off the height.
RECURSIVE WindowOpenings_NoHeadroom(_, _, _, _)
WindowOpenings_NoHeadroom(wall, windows, safeSill, wallHeightMm) ==
    IF windows = <<>> THEN <<>>
    ELSE LET win == Head(windows)
             heightMm == clamp(WindowHeightOr1200(win), Mm(MinWindowHeightMm), wallHeightMm)
         IN  maybeAddOpening(wall, win.start, win.end, safeSill, heightMm, wallHeightMm)
             \o WindowOpenings_NoHeadroom(wall, Tail(windows), safeSill, wallHeightMm)

RECURSIVE WindowOpenings(_, _, _, _)
WindowOpenings(wall, windows, safeSill, wallHeightMm) ==
    IF windows = <<>> THEN <<>>
    ELSE LET win == Head(windows)
             heightMm == clamp(WindowHeightOr1200(win), Mm(MinWindowHeightMm), wallHeightMm)
             usableHeight == Min(heightMm, wallHeightMm - safeSill - Mm(WindowHeadroomMm))
         IN  (IF usableHeight <= Mm(MinUsableWindowHeightMm) THEN <<>>
              ELSE maybeAddOpening(wall, win.start, win.end, safeSill, usableHeight,
                                   wallHeightMm))
             \o WindowOpenings(wall, Tail(windows), safeSill, wallHeightMm)

\* Mutant: the door height setting is ignored and doors are cut to the ceiling.
buildOpeningsForWall_DoorToCeiling(wall, doors, windows, wallHeightMm, doorHeightMm, windowSillMm) ==
    LET safeSill == clamp(windowSillMm, 0, wallHeightMm - Mm(SillHeadroomMm))
    IN  DoorOpenings(wall, doors, wallHeightMm, wallHeightMm)
        \o WindowOpenings(wall, windows, safeSill, wallHeightMm)

\* Mutant: the sill is clamped to the wall height, without the 200 mm kept
\* under the ceiling.
buildOpeningsForWall_SillToCeiling(wall, doors, windows, wallHeightMm, doorHeightMm, windowSillMm) ==
    LET safeDoorHeight == clamp(doorHeightMm, Mm(MinDoorHeightMm),
                                wallHeightMm - Mm(DoorHeadroomMm))
        safeSill == clamp(windowSillMm, 0, wallHeightMm)
    IN  DoorOpenings(wall, doors, safeDoorHeight, wallHeightMm)
        \o WindowOpenings(wall, windows, safeSill, wallHeightMm)

buildOpeningsForWall(wall, doors, windows, wallHeightMm, doorHeightMm, windowSillMm) ==
    LET safeDoorHeight == clamp(doorHeightMm, Mm(MinDoorHeightMm),
                                wallHeightMm - Mm(DoorHeadroomMm))
        safeSill == clamp(windowSillMm, 0, wallHeightMm - Mm(SillHeadroomMm))
    IN  DoorOpenings(wall, doors, safeDoorHeight, wallHeightMm)
        \o WindowOpenings(wall, windows, safeSill, wallHeightMm)

(***************************************************************************)
(* Wall segmenter (the wall loop of the ThreeDView effect)                 *)
(***************************************************************************)

MinPieceLengthMm == 60

MinPieceHeightMm == 60

SplitToleranceMm == 1

OverlapToleranceMm == 1

RECURSIVE SplitPointsOf(_)
SplitPointsOf(openings) ==
    IF openings = <<>> THEN <<>>
    ELSE <<Round(Head(openings).startMm), Round(Head(openings).endMm)>>
         \o SplitPointsOf(Tail(openings))

RECURSIVE InsertSorted(_, _)
InsertSorted(x, sorted) ==
    IF sorted = <<>> THEN <<x>>
    ELSE IF x < Head(sorted) THEN <<x>> \o sorted
    ELSE <<Head(sorted)>> \o InsertSorted(x, Tail(sorted))

\* splitPoints.sort((a, b) => a - b)
RECURSIVE SortAscending(_)
SortAscending(points) ==
    IF points = <<>> THEN <<>>
    ELSE InsertSorted(Head(points), SortAscending(Tail(points)))

RECURSIVE Dedupe(_, _)
Dedupe(points, deduped) ==
    IF points = <<>> THEN deduped
    ELSE IF deduped = <<>> THEN Dedupe(Tail(points), <<Head(points)>>)
    ELSE LET prev == deduped[Len(deduped)]
         IN  IF Abs(prev - Head(points)) >= Mm(SplitToleranceMm)
             THEN Dedupe(Tail(points), Append(deduped, Head(points)))
             ELSE Dedupe(Tail(points), deduped)

dedupedSplitPoints(lengthMm, openings) ==
    Dedupe(SortAscending(<<0, lengthMm>> \o SplitPointsOf(openings)), <<>>)

\* openings.filter(o => o.startMm < endMm - 1 && o.endMm > startMm + 1)
overlappingOpenings(openings, startMm, endMm) ==
    SelectSeq(openings,
              LAMBDA o : /\ o.startMm < endMm - Mm(OverlapToleranceMm)
                         /\ o.endMm > startMm + Mm(OverlapToleranceMm))

RECURSIVE SubtractAll(_, _)
SubtractAll(spans, openings) ==
    IF openings = <<>> THEN spans
    ELSE SubtractAll(subtractInterval(spans, <<Head(openings).bottomMm, Head(openings).topMm>>),
                     Tail(openings))

\* The vertical spans left of [0, wallHeightMm] over one horizontal segment.
verticalSpans(openings, startMm, endMm, wallHeightMm) ==
    SubtractAll(<<(<<0, wallHeightMm>>)>>, overlappingOpenings(openings, startMm, endMm))

\* Mutant: a piece for every vertical span, however low.
RECURSIVE SpanPieces_NoMinHeight(_, _, _, _)
SpanPieces_NoMinHeight(wallIdx, startMm, endMm, spans) ==
    IF spans = <<>> THEN <<>>
    ELSE <<[wall |-> wallIdx, startMm |-> startMm, endMm |-> endMm,
            bottomMm |-> Head(spans)[1], topMm |-> Head(spans)[2]]>>
         \o SpanPieces_NoMinHeight(wallIdx, startMm, endMm, Tail(spans))

RECURSIVE SpanPieces(_, _, _, _)
SpanPieces(wallIdx, startMm, endMm, spans) ==
    IF spans = <<>> THEN <<>>
    ELSE LET spanBottomMm == Head(spans)[1]
             spanTopMm == Head(spans)[2]
         IN  (IF spanTopMm - spanBottomMm < Mm(MinPieceHeightMm) THEN <<>>
              ELSE <<[wall |-> wallIdx, startMm |-> startMm, endMm |-> endMm,
                      bottomMm |-> spanBottomMm, topMm |-> spanTopMm]>>)
             \o SpanPieces(wallIdx, startMm, endMm, Tail(spans))

\* Mutant: the loop over the split points stops one segment early.
RECURSIVE SegmentPieces_SkipLast(_, _, _, _, _)
SegmentPieces_SkipLast(wallIdx, points, i, openings, wallHeightMm) ==
    IF i > Len(points) - 2 THEN <<>>
    ELSE LET startMm == points[i]
             endMm == points[i + 1]
         IN  (IF endMm - startMm < Mm(MinPieceLengthMm) THEN <<>>
              ELSE SpanPieces(wallIdx, startMm, endMm,
                              verticalSpans(openings, startMm, endMm, wallHeightMm)))
             \o SegmentPieces_SkipLast(wallIdx, points, i + 1, openings, wallHeightMm)

RECURSIVE SegmentPieces(_, _, _, _, _)
SegmentPieces(wallIdx, points, i, openings, wallHeightMm) ==
    IF i > Len(points) - 1 THEN <<>>
    ELSE LET startMm == points[i]
             endMm == points[i + 1]
         IN  (IF endMm - startMm < Mm(MinPieceLengthMm) THEN <<>>
              ELSE SpanPieces(wallIdx, startMm, endMm,
                              verticalSpans(openings, startMm, endMm, wallHeightMm)))
             \o SegmentPieces(wallIdx, points, i + 1, openings, wallHeightMm)

\* One iteration of `for (const ws of wallSegments)`: the pieces of wall wallIdx.
wallPieces(p, s, wallIdx, wallHeightMm) ==
    LET ws == p.walls[wallIdx]
        lengthMm == Hypot(ws.end[1] - ws.start[1], ws.end[2] - ws.start[2])
    IN  IF lengthMm < Mm(MinWallLengthMm) THEN <<>>
        ELSE Const(buildOpeningsForWall(ws, p.doors, p.windows, wallHeightMm,
                                        s.doorHeightMm, s.windowSillMm),
                   LAMBDA openings :
                       SegmentPieces(wallIdx, dedupedSplitPoints(lengthMm, openings), 1,
                                     openings, wallHeightMm))

\* The loop over the walls leaving at the first wall shorter than 1 mm
\* (`break` for `continue`).
RECURSIVE AllWallPieces_StopAtShortWall(_, _, _, _)
AllWallPieces_StopAtShortWall(p, s, wallIdx, wallHeightMm) ==
    IF wallIdx > Len(p.walls) THEN <<>>
    ELSE IF Hypot(p.walls[wallIdx].end[1] - p.walls[wallIdx].start[1],
                  p.walls[wallIdx].end[2] - p.walls[wallIdx].start[2]) < Mm(MinWallLengthMm)
    THEN <<>>
    ELSE wallPieces(p, s, wallIdx, wallHeightMm)
         \o AllWallPieces_StopAtShortWall(p, s, wallIdx + 1, wallHeightMm)

RECURSIVE AllWallPieces(_, _, _, _)
AllWallPieces(p, s, wallIdx, wallHeightMm) ==
    IF wallIdx > Len(p.walls) THEN <<>>
    ELSE wallPieces(p, s, wallIdx, wallHeightMm)
         \o AllWallPieces(p, s, wallIdx + 1, wallHeightMm)

(***************************************************************************)
(* Anchoring an opening to the best wall (3D views)                        *)
(***************************************************************************)

\* K of the alignment penalty, (1 - alignment) * 400.
AlignmentWeight3D == 400

\* score * 20 * rawLength, an integer: score = (distStart + distEnd) / 2
\* + max(0, rawLength - projectedLength) * 0.35 + (1 - alignment) * weightMm,
\* with alignment = dot / rawLength.  Scores of one opening against different
\* walls share the factor 20 * rawLength.
\* Mutant: the distance penalty is left out of the score.
FitScore_NoDistance(projection, rawLength, weightMm) ==
    LET projectedLength == projection.endMm - projection.startMm
        trimPenalty == Max(0, rawLength - projectedLength)
    IN  7 * rawLength * trimPenalty
        + 20 * Mm(weightMm) * (rawLength - projection.alignment[1])

FitScore(projection, rawLength, weightMm) ==
    LET projectedLength == projection.endMm - projection.startMm
        trimPenalty == Max(0, rawLength - projectedLength)
    IN  10 * rawLength * (projection.distStartMm + projection.distEndMm)
        + 7 * rawLength * trimPenalty
        + 20 * Mm(weightMm) * (rawLength - projection.alignment[1])

\* Mutant: a wall that only equals the best score replaces the best.
RECURSIVE BestProjection_LastWins(_, _, _, _, _, _)
BestProjection_LastWins(walls, i, start, end, rawLength, best) ==
    IF i > Len(walls) THEN best
    ELSE Const(projectOpeningToWall(walls[i], start, end, AnchorMinAlignment),
               LAMBDA projection :
         IF ~projection.ok
         THEN BestProjection_LastWins(walls, i + 1, start, end, rawLength, best)
         ELSE Const(FitScore(projection, rawLength, AlignmentWeight3D), LAMBDA score :
              IF ~best.ok \/ score <= best.score
              THEN BestProjection_LastWins(walls, i + 1, start, end, rawLength,
                                           [ok |-> TRUE, projection |-> projection,
                                            score |-> score, wall |-> i])
              ELSE BestProjection_LastWins(walls, i + 1, start, end, rawLength, best)))

RECURSIVE BestProjection(_, _, _, _, _, _)
BestProjection(walls, i, start, end, rawLength, best) ==
    IF i > Len(walls) THEN best
    ELSE Const(projectOpeningToWall(walls[i], start, end, AnchorMinAlignment),
               LAMBDA projection :
         IF ~projection.ok
         THEN BestProjection(walls, i + 1, start, end, rawLength, best)
         ELSE Const(FitScore(projection, rawLength, AlignmentWeight3D), LAMBDA score :
              IF ~best.ok \/ score < best.score
              THEN BestProjection(walls, i + 1, start, end, rawLength,
                                  [ok |-> TRUE, projection |-> projection,
                                   score |-> score, wall |-> i])
              ELSE BestProjection(walls, i + 1, start, end, rawLength, best)))

\* The anchored segment (linePose is taken of its two points) and, as a ghost
\* field, the index of the wall that won; NULL when no wall qualifies.
anchorOpeningPose(walls, start, end) ==
    IF Len(walls) = 0 THEN NULL
    ELSE Const(BestProjection(walls, 1, start, end,
                              Hypot(end[1] - start[1], end[2] - start[2]), NULL),
               LAMBDA best :
         IF ~best.ok THEN NULL
         ELSE [ok |-> TRUE, wall |-> best.wall,
               start |-> best.projection.startPoint,
               end |-> best.projection.endPoint,
               startMm |-> best.projection.startMm,
               endMm |-> best.projection.endMm])

(***************************************************************************)
(* Anchoring a drawn opening to the nearest wall (2D editor)               *)
(***************************************************************************)

\* `if (alignment < 0.84) continue`, as <<num, den>>.
NearestMinAlignment == <<21, 25>>

MinRawLengthMm == 1

NearestMinWallLengthMm == 1

NearestDistanceFloorMm == 140

NearestMinProjectedLengthMm == 120

\* K of the alignment penalty, (1 - alignment) * 250.
AlignmentWeight2D == 250

\* The body of `for (const wall of walls)` up to the score: the projection of
\* the opening on this wall, or NULL where the body says `continue`.
nearestWallCandidate(wall, start, end) ==
    LET dx == wall.end[1] - wall.start[1]
        dy == wall.end[2] - wall.start[2]
        wallLength == Hypot(dx, dy)
    IN  IF wallLength < Mm(NearestMinWallLengthMm) THEN NULL
        ELSE
        LET ux == dx \div wallLength
            uy == dy \div wallLength
            odx == end[1] - start[1]
            ody == end[2] - start[2]
            dot == Abs(odx * ux + ody * uy)
        IN  IF AlignmentBelow(dot, odx * odx + ody * ody, NearestMinAlignment) THEN NULL
            ELSE
            LET rsx == start[1] - wall.start[1]
                rsy == start[2] - wall.start[2]
                rex == end[1] - wall.start[1]
                rey == end[2] - wall.start[2]
                projStartRaw == rsx * ux + rsy * uy
                projEndRaw == rex * ux + rey * uy
                distStart == Abs(rsx * (-uy) + rsy * ux)
                distEnd == Abs(rex * (-uy) + rey * ux)
            IN  IF TooFarFromWall(distStart, distEnd, wall.thickness, NearestDistanceFloorMm)
                THEN NULL
                ELSE
                LET startMm == Max(0, Min(wallLength, Min(projStartRaw, projEndRaw)))
                    endMm == Max(0, Min(wallLength, Max(projStartRaw, projEndRaw)))
                IN  IF endMm - startMm < Mm(NearestMinProjectedLengthMm) THEN NULL
                    ELSE [ok |-> TRUE,
                          startMm |-> startMm,
                          endMm |-> endMm,
                          startPoint |-> <<wall.start[1] + ux * startMm,
                                           wall.start[2] + uy * startMm>>,
                          endPoint |-> <<wall.start[1] + ux * endMm,
                                         wall.start[2] + uy * endMm>>,
                          distStartMm |-> distStart,
                          distEndMm |-> distEnd,
                          alignment |-> <<dot, odx * odx + ody * ody>>]

\* The loop over the walls: `if (!best || score < best.score) best = ...`.
RECURSIVE NearestCandidate(_, _, _, _, _, _)
NearestCandidate(walls, i, start, end, rawLength, best) ==
    IF i > Len(walls) THEN best
    ELSE Const(nearestWallCandidate(walls[i], start, end), LAMBDA candidate :
         IF ~candidate.ok
         THEN NearestCandidate(walls, i + 1, start, end, rawLength, best)
         ELSE Const(FitScore(candidate, rawLength, AlignmentWeight2D), LAMBDA score :
              IF ~best.ok \/ score < best.score
              THEN NearestCandidate(walls, i + 1, start, end, rawLength,
                                    [ok |-> TRUE, start |-> candidate.startPoint,
                                     end |-> candidate.endPoint, score |-> score,
                                     wall |-> i])
              ELSE NearestCandidate(walls, i + 1, start, end, rawLength, best)))

\* The segment the editor stores for a drawn door or window and, as a ghost
\* field, the index of the wall it was projected on (0: the raw segment).
projectOpeningToNearestWall(start, end, walls) ==
    IF Len(walls) = 0 THEN [wall |-> 0, start |-> start, end |-> end]
    ELSE Const(Hypot(end[1] - start[1], end[2] - start[2]), LAMBDA rawLength :
         IF rawLength < Mm(MinRawLengthMm) THEN [wall |-> 0, start |-> start, end |-> end]
         ELSE Const(NearestCandidate(walls, 1, start, end, rawLength, NULL), LAMBDA best :
              IF ~best.ok THEN [wall |-> 0, start |-> start, end |-> end]
              ELSE [wall |-> best.wall, start |-> best.start, end |-> best.end]))

(***************************************************************************)
(* The 3D view: plan and settings in, scene out                            *)
(***************************************************************************)

NoPlan == [loaded |-> FALSE]

\* What one of the two ThreeDView components has put in its scene.
EmptyView == [pieces |-> <<>>, doors |-> <<>>, windows |-> <<>>]

EmptyScene ==
    [pieces |-> <<>>, doorPoses |-> <<>>, windowPoses |-> <<>>,
     legacy |-> EmptyView, textured |-> EmptyView]

DefaultWallHeightMm == 2700

DefaultDoorHeightMm == 2100

DefaultWindowSillMm == 900

DEFAULT_VIEW3D_SETTINGS ==
    [wallHeightMm |-> Mm(DefaultWallHeightMm),
     doorHeightMm |-> Mm(DefaultDoorHeightMm),
     windowSillMm |-> Mm(DefaultWindowSillMm)]

\* anchorOpeningPose(...) ?? linePose(...): the anchored segment, else the raw one
\* (wall 0 marks the fallback).
openingPose(walls, opening) ==
    Const(anchorOpeningPose(walls, opening.start, opening.end), LAMBDA anchored :
        IF anchored.ok THEN anchored
        ELSE [ok |-> TRUE, wall |-> 0, start |-> opening.start, end |-> opening.end,
              startMm |-> 0, endMm |-> 0])

(***************************************************************************)
(* Placement in the scene: legacy view and textured view                   *)
(*                                                                         *)
(* A scene position is kept as twice its value, in grid units, so that the *)
(* mid point of a segment is an integer pair; MM_TO_M scales every length  *)
(* alike and is left out.  An angle is kept as the pair <<dx, dy>> it is   *)
(* the atan2 of: two pairs are the same angle when they point the same way.*)
(***************************************************************************)

FrameMinWidthMm == 120

FrameMinDoorHeightMm == 1200

FrameDoorHeadroomMm == 30

FrameSillHeadroomMm == 180

FrameWindowHeadroomMm == 40

FrameMinUsableHeightMm == 100

\* Math.atan2(dy, dx)
Atan2(dy, dx) == <<dx, dy>>

\* -angle
Negated(angle) == <<angle[1], -angle[2]>>

\* pose.widthMm < 120, on squares.
TooNarrow(start, end) ==
    (end[1] - start[1]) * (end[1] - start[1]) + (end[2] - start[2]) * (end[2] - start[2])
        < Mm(FrameMinWidthMm) * Mm(FrameMinWidthMm)

\* A door or window for which the loop said `continue`.
NoFrame == [shown |-> FALSE]

\* Mapper: toScenePoint of the point whose double is twice; plan Y is negated.
toScenePoint(twice, bb) ==
    <<twice[1] - (bb[1] + bb[3]), -(twice[2] - (bb[2] + bb[4]))>>

\* Mapper: advancePoint by half of twiceDistanceMm, as the double of the point.
advancePoint(start, end, twiceDistanceMm) ==
    LET dx == end[1] - start[1]
        dy == end[2] - start[2]
    IN  Const(Hypot(dx, dy), LAMBDA len :
            IF len < Mm(1) THEN <<2 * start[1], 2 * start[2]>>
            ELSE <<2 * start[1] + (dx \div len) * twiceDistanceMm,
                   2 * start[2] + (dy \div len) * twiceDistanceMm>>)

\* Mapper: wallRotationY.
wallRotationY(start, end) == Atan2(end[2] - start[2], end[1] - start[1])

\* Mapper: linePose (midX, midZ as position; widthMm is tested by TooNarrow).
mapperLinePose(start, end, bb) ==
    [angleRad |-> Atan2(end[2] - start[2], end[1] - start[1]),
     position |-> toScenePoint(<<start[1] + end[1], start[2] + end[2]>>, bb)]

\* Legacy view: linePose(start, end, cx, cz); plan Y becomes scene Z as it is.
linePose(start, end, bb) ==
    [angle |-> Atan2(end[2] - start[2], end[1] - start[1]),
     position |-> <<start[1] + end[1] - (bb[1] + bb[3]),
                    start[2] + end[2] - (bb[2] + bb[4])>>]

\* Textured view: position and rotation.y of the mesh of one piece of wall ws.
texturedPiece(ws, piece, bb) ==
    [position |-> toScenePoint(advancePoint(ws.start, ws.end, piece.startMm + piece.endMm),
                               bb),
     rotation |-> wallRotationY(ws.start, ws.end)]

\* Legacy view: position and rotation.y of the mesh of one piece of wall ws.
legacyPiece(ws, piece, bb) ==
    LET dx == ws.end[1] - ws.start[1]
        dz == ws.end[2] - ws.start[2]
    IN  Const(Hypot(dx, dz), LAMBDA lengthMm :
            [position |-> <<2 * ws.start[1] + (dx \div lengthMm) * (piece.startMm + piece.endMm)
                                - (bb[1] + bb[3]),
                            2 * ws.start[2] + (dz \div lengthMm) * (piece.startMm + piece.endMm)
                                - (bb[2] + bb[4])>>,
             rotation |-> Negated(Atan2(dz, dx))])

\* Legacy view: the group of one door or window between bottomMm and topMm,
\* at the anchored pose or else the raw one; wall is the ghost index of the
\* anchoring wall (0: raw).
legacyFrame(pose, bb, bottomMm, topMm) ==
    IF TooNarrow(pose.start, pose.end) THEN NoFrame
    ELSE [shown |-> TRUE, wall |-> pose.wall, start |-> pose.start, end |-> pose.end,
          position |-> linePose(pose.start, pose.end, bb).position,
          rotation |-> Negated(linePose(pose.start, pose.end, bb).angle),
          bottomMm |-> bottomMm, topMm |-> topMm]

\* Textured view: the group of one door or window, at the pose of the segment
\* as the plan gives it.
texturedFrame(opening, bb, bottomMm, topMm) ==
    IF TooNarrow(opening.start, opening.end) THEN NoFrame
    ELSE [shown |-> TRUE, wall |-> 0, start |-> opening.start, end |-> opening.end,
          position |-> mapperLinePose(opening.start, opening.end, bb).position,
          rotation |-> wallRotationY(opening.start, opening.end),
          bottomMm |-> bottomMm, topMm |-> topMm]

\* The window loop's height test, common to both views: the usable height,
\* or 0 where the loop says `continue`.
frameUsableHeight(win, safeWindowSillMm, wallHeightMm) ==
    Const(Min(clamp(WindowHeightOr1200(win), Mm(MinWindowHeightMm), wallHeightMm),
              wallHeightMm - safeWindowSillMm - Mm(FrameWindowHeadroomMm)),
          LAMBDA usableHeightMm :
              IF usableHeightMm <= Mm(FrameMinUsableHeightMm) THEN 0 ELSE usableHeightMm)

legacyWindow(pose, win, bb, safeWindowSillMm, wallHeightMm) ==
    Const(legacyFrame(pose, bb, safeWindowSillMm,
                      safeWindowSillMm + frameUsableHeight(win, safeWindowSillMm, wallHeightMm)),
          LAMBDA frame : IF frame.shown /\ frame.topMm = frame.bottomMm THEN NoFrame ELSE frame)

texturedWindow(win, bb, safeWindowSillMm, wallHeightMm) ==
    Const(texturedFrame(win, bb, safeWindowSillMm,
                        safeWindowSillMm + frameUsableHeight(win, safeWindowSillMm, wallHeightMm)),
          LAMBDA frame : IF frame.shown /\ frame.topMm = frame.bottomMm THEN NoFrame ELSE frame)

\* The scene of the legacy view for plan p, given the pieces of its walls and
\* the pose of each door and window (anchorOpeningPose ?? linePose).
legacyView(p, s, pieces, doorPoses, windowPoses, wallHeightMm) ==
    LET bb == p.bounding_box
        safeDoorHeightMm == clamp(s.doorHeightMm, Mm(FrameMinDoorHeightMm),
                                  wallHeightMm - Mm(FrameDoorHeadroomMm))
        safeWindowSillMm == clamp(s.windowSillMm, 0, wallHeightMm - Mm(FrameSillHeadroomMm))
    IN  [pieces |-> [k \in 1..Len(pieces) |->
                        legacyPiece(p.walls[pieces[k].wall], pieces[k], bb)],
         doors |-> [i \in 1..Len(p.doors) |->
                       legacyFrame(doorPoses[i], bb, 0, safeDoorHeightMm)],
         windows |-> [i \in 1..Len(p.windows) |->
                         legacyWindow(windowPoses[i], p.windows[i], bb,
                                      safeWindowSillMm, wallHeightMm)]]

\* The scene of the textured view for plan p, given the pieces of its walls.
texturedView(p, s, pieces, wallHeightMm) ==
    LET bb == p.bounding_box
        safeDoorHeightMm == clamp(s.doorHeightMm, Mm(FrameMinDoorHeightMm),
                                  wallHeightMm - Mm(FrameDoorHeadroomMm))
        safeWindowSillMm == clamp(s.windowSillMm, 0, wallHeightMm - Mm(FrameSillHeadroomMm))
    IN  [pieces |-> [k \in 1..Len(pieces) |->
                        texturedPiece(p.walls[pieces[k].wall], pieces[k], bb)],
         doors |-> [i \in 1..Len(p.doors) |->
                       texturedFrame(p.doors[i], bb, 0, safeDoorHeightMm)],
         windows |-> [i \in 1..Len(p.windows) |->
                         texturedWindow(p.windows[i], bb, safeWindowSillMm, wallHeightMm)]]

\* buildScene adding the pieces to those of the scene built before instead of
\* to a new scene.
buildScene_OntoPreviousScene(p, s) ==
    IF ~p.loaded THEN EmptyScene
    ELSE [EmptyScene EXCEPT
             !.pieces = scene.pieces
                        \o AllWallPieces(p, s, 1, clamp(s.wallHeightMm, Mm(MinWallHeightMm),
                                                        Mm(MaxWallHeightMm)))]

\* The effect that rebuilds the scene from the props: wall pieces (the
\* segmentation is the same code in both views), a pose per door and per
\* window, and what each view places in its scene.
buildScene(p, s) ==
    IF ~p.loaded THEN EmptyScene
    ELSE LET wallHeightMm == clamp(s.wallHeightMm, Mm(MinWallHeightMm), Mm(MaxWallHeightMm))
         IN  Const(AllWallPieces(p, s, 1, wallHeightMm), LAMBDA pieces :
             Const([i \in 1..Len(p.doors) |-> openingPose(p.walls, p.doors[i])],
                   LAMBDA doorPoses :
             Const([i \in 1..Len(p.windows) |-> openingPose(p.walls, p.windows[i])],
                   LAMBDA windowPoses :
                 [pieces |-> pieces,
                  doorPoses |-> doorPoses,
                  windowPoses |-> windowPoses,
                  legacy |-> legacyView(p, s, pieces, doorPoses, windowPoses, wallHeightMm),
                  textured |-> texturedView(p, s, pieces, wallHeightMm)])))

(***************************************************************************)
(* Inputs of the 3D view                                                   *)
(***************************************************************************)

Pt(x, y) == <<Mm(x), Mm(y)>>

Wall(a, b, t) == [start |-> a, end |-> b, thickness |-> Mm(t)]

Door(a, b) == [start |-> a, end |-> b]

Window(a, b, h) == [start |-> a, end |-> b, height |-> Mm(h)]

\* Walls a plan may hold: the 4 m wall of the scenarios, its collinear
\* continuation, a wall at right angles, a wall shorter than a piece, and a
\* degenerate wall of one grid unit (less than 1 mm).
WallChoices ==
    <<Wall(Pt(0, 0), Pt(4000, 0), 200),
      Wall(Pt(4000, 0), Pt(8000, 0), 200),
      Wall(Pt(0, 3000), Pt(0, 0), 150),
      Wall(Pt(0, 0), Pt(50, 0), 200),
      Wall(<<0, 0>>, <<1, 0>>, 200)>>

\* Doors: the scenario door, a door across the junction of the two collinear
\* walls that starts one grid unit (a fraction of a millimetre) after
\* x = 3500, a door 510 mm long askew by 28 degrees (alignment 15/17), and a
\* door 100 mm long away from every wall.
DoorChoices ==
    <<Door(Pt(1000, 0), Pt(1900, 0)),
      Door(<<Mm(3500) + 1, 0>>, Pt(4500, 0)),
      Door(Pt(1000, -120), Pt(1450, 120)),
      Door(Pt(2000, 1500), Pt(2100, 1500))>>

\* Windows: the scenario window, a tall one overlapping it and the scenario
\* door, and one with no height of its own on the wall at right angles.
WindowChoices ==
    <<Window(Pt(500, 0), Pt(1500, 0), 1200),
      Window(Pt(1200, 0), Pt(2500, 0), 2600),
      Window(Pt(0, 500), Pt(0, 1500), 0)>>

MaxWalls == 2

MaxDoors == 1

MaxWindows == 1

\* plan.bounding_box as the backend delivers it: [minX, minY, maxX, maxY].
PlanBoundingBox == <<Mm(0), Mm(0), Mm(8000), Mm(3000)>>

EmptyPlan ==
    [loaded |-> TRUE, walls |-> <<>>, doors |-> <<>>, windows |-> <<>>,
     bounding_box |-> PlanBoundingBox]

\* Position of the last element of list within choices (0 for the empty list).
LastChoice(list, choices) ==
    IF list = <<>> THEN 0
    ELSE CHOOSE i \in 1..Len(choices) : choices[i] = list[Len(list)]

\* The lists one element longer than list: elements are taken in the order of
\* choices, so that a list is reached once, and its length stays within max.
Appended(list, choices, max) ==
    IF Len(list) >= max THEN {}
    ELSE {Append(list, choices[i]) : i \in (LastChoice(list, choices) + 1)..Len(choices)}

\* The plans a regeneration may deliver after old: the first plan is empty, a
\* later one holds one wall, door or window more.
NextPlans(old) ==
    IF ~old.loaded THEN {EmptyPlan}
    ELSE {[old EXCEPT !.walls = w] : w \in Appended(old.walls, WallChoices, MaxWalls)}
         \cup {[old EXCEPT !.doors = d] : d \in Appended(old.doors, DoorChoices, MaxDoors)}
         \cup {[old EXCEPT !.windows = n] :
                  n \in Appended(old.windows, WindowChoices, MaxWindows)}

\* Values of the wall-height slider (min 1800, max 6000).
WallHeightInputs == {Mm(1800), Mm(2700)}

\* Numbers typed into the door-height and window-sill fields.
DoorHeightDrafts == {Mm(2100), Mm(4500)}

WindowSillDrafts == {Mm(900), Mm(2600)}

DoorHeightFieldMinMm == 1000

DoorHeightFieldMaxMm == 4000

WindowSillFieldMinMm == 0

WindowSillFieldMaxMm == 2600

(***************************************************************************)
(* Actions of the 3D view                                                  *)
(***************************************************************************)

IntervalIdle == source = <<>> /\ applied = <<>> /\ before = <<>>

DEFAULT_SETBACKS ==
    [front |-> Mm(3000), rear |-> Mm(2000), left |-> Mm(1500), right |-> Mm(1500)]

\* lot: null
NoLot == [set |-> FALSE]

INITIAL_STATE ==
    [lot |-> NoLot, setbacks |-> DEFAULT_SETBACKS, walls |-> <<>>, doors |-> <<>>,
     windows |-> <<>>, labels |-> <<>>]

INITIAL_HISTORY == [past |-> <<>>, present |-> INITIAL_STATE, future |-> <<>>]

\* useState<ToolType>("select"), useState<DrawPhase>({ phase: "idle" }), and the
\* effect of the mount has run.
EditorIdle ==
    /\ activeTool = "select"
    /\ drawPhase = [phase |-> "idle"]
    /\ toolEffectDue = FALSE

PlanModeIdle == history = INITIAL_HISTORY /\ EditorIdle /\ script = <<[kw |-> "UNIT"]>>

NoProbe == [walls |-> <<>>, start |-> <<0, 0>>, end |-> <<0, 0>>]

NoAnswer == [op |-> "none"]

AnchorIdle == probe = NoProbe /\ answer = NoAnswer

InitView3D ==
    /\ plan = NoPlan
    /\ settings = DEFAULT_VIEW3D_SETTINGS
    /\ scene = buildScene(NoPlan, DEFAULT_VIEW3D_SETTINGS)
    /\ phVersion = 0
    /\ IntervalIdle
    /\ AnchorIdle
    /\ PlanModeIdle

\* The plan prop changes; the effect rebuilds the scene.
ReceivePlan ==
    \E p \in NextPlans(plan) :
        /\ plan' = p
        /\ scene' = buildScene(p, settings)
        /\ UNCHANGED <<settings, phVersion, intervalVars, anchorVars, planModeVars>>

\* handleUpdate3DSettings merges the patch; the effect rebuilds the scene.
UpdateSettings(patch) ==
    /\ settings' = [k \in DOMAIN settings |->
                       IF k \in DOMAIN patch THEN patch[k] ELSE settings[k]]
    /\ scene' = buildScene(plan, settings')
    /\ UNCHANGED <<plan, phVersion, intervalVars, anchorVars, planModeVars>>

\* The wall-height slider's onChange.
ChangeWallHeight ==
    \E v \in WallHeightInputs : UpdateSettings([wallHeightMm |-> v])

\* NumberSettingInput.commit of the door-height field.
CommitDoorHeight ==
    \E parsed \in DoorHeightDrafts :
        UpdateSettings([doorHeightMm |->
            clamp(parsed, Mm(DoorHeightFieldMinMm), Mm(DoorHeightFieldMaxMm))])

\* NumberSettingInput.commit of the window-sill field.
CommitWindowSill ==
    \E parsed \in WindowSillDrafts :
        UpdateSettings([windowSillMm |->
            clamp(parsed, Mm(WindowSillFieldMinMm), Mm(WindowSillFieldMaxMm))])

Next == ReceivePlan \/ ChangeWallHeight \/ CommitDoorHeight \/ CommitWindowSill

Spec == InitView3D /\ [][Next]_vars

\* Assets (sky, floor texture) that may finish loading while the view is shown.
MaxPhVersion == 1

\* An asset has loaded: setPhVersion bumps the counter, and the effect, which
\* depends on [plan, settings, phVersion], rebuilds the scene from the props
\* as they are.
Rebuild ==
    /\ phVersion < MaxPhVersion
    /\ phVersion' = phVersion + 1
    /\ scene' = buildScene(plan, settings)
    /\ UNCHANGED <<plan, settings, intervalVars, anchorVars, planModeVars>>

\* The 3D view while assets load: the plan is regenerated, the wall height
\* changes, and the scene is rebuilt on the same props.
NextRebuild == ReceivePlan \/ ChangeWallHeight \/ Rebuild

SpecRebuild == InitView3D /\ [][NextRebuild]_vars

(***************************************************************************)
(* Properties of the 3D view                                               *)
(***************************************************************************)

Piece(wallIdx, startMm, endMm, bottomMm, topMm) ==
    [wall |-> wallIdx, startMm |-> Mm(startMm), endMm |-> Mm(endMm),
     bottomMm |-> Mm(bottomMm), topMm |-> Mm(topMm)]

PiecesOf(wallIdx) == SelectSeq(scene.pieces, LAMBDA piece : piece.wall = wallIdx)

\* The wall height the effect uses.
SceneWallHeight == clamp(settings.wallHeightMm, Mm(MinWallHeightMm), Mm(MaxWallHeightMm))

ScenarioAPlan ==
    [EmptyPlan EXCEPT !.walls = <<WallChoices[1]>>, !.doors = <<DoorChoices[1]>>]

ScenarioBPlan ==
    [EmptyPlan EXCEPT !.walls = <<WallChoices[1]>>, !.windows = <<WindowChoices[1]>>]

InScenarioA == plan = ScenarioAPlan /\ settings = DEFAULT_VIEW3D_SETTINGS

\* C1 as stated: in Scenario A (wall (0,0)-(4000,0), door (1000,0)-(1900,0),
\* default heights 2100 and 2700) the wall yields exactly the two full-height
\* pieces [0,1000] and [1900,4000], and nothing over [1000,1900].
C1_ScenarioA_TwoPieces ==
    InScenarioA =>
        scene.pieces = <<Piece(1, 0, 1000, 0, 2700), Piece(1, 1900, 4000, 0, 2700)>>

\* C1 amended: in Scenario A the wall yields exactly three pieces, in wall
\* order: [0,1000] at full height, the lintel over the door, [1000,1900] with
\* vertical span [2100,2700], and [1900,4000] at full height.
C1_ScenarioA_Lintel ==
    InScenarioA =>
        scene.pieces = <<Piece(1, 0, 1000, 0, 2700),
                         Piece(1, 1000, 1900, 2100, 2700),
                         Piece(1, 1900, 4000, 0, 2700)>>

C1_Witness == InScenarioA /\ Len(scene.pieces) = 3

InScenarioB ==
    /\ plan = ScenarioBPlan
    /\ settings.wallHeightMm = Mm(2700)
    /\ settings.windowSillMm = Mm(900)

\* C2: in Scenario B (same wall, window (500,0)-(1500,0) of height 1200, sill
\* 900, wall height 2700) the wall yields a full-height piece on [0,500], over
\* [500,1500] a bottom piece [0,900] and a top piece [2100,2700] and nothing
\* between, and a full-height piece on [1500,4000].
C2_ScenarioB ==
    InScenarioB =>
        scene.pieces = <<Piece(1, 0, 500, 0, 2700),
                         Piece(1, 500, 1500, 0, 900),
                         Piece(1, 500, 1500, 2100, 2700),
                         Piece(1, 1500, 4000, 0, 2700)>>

C2_Witness == InScenarioB /\ Len(scene.pieces) = 4

WallLength(wall) == Hypot(wall.end[1] - wall.start[1], wall.end[2] - wall.start[2])

\* The openings the segmenter projects onto wall wallIdx of the current plan.
OpeningsOn(wallIdx) ==
    buildOpeningsForWall(plan.walls[wallIdx], plan.doors, plan.windows, SceneWallHeight,
                         settings.doorHeightMm, settings.windowSillMm)

FullPiece(wallIdx) ==
    [wall |-> wallIdx, startMm |-> 0, endMm |-> WallLength(plan.walls[wallIdx]),
     bottomMm |-> 0, topMm |-> SceneWallHeight]

\* C8 as stated: every wall of at least 1 mm with no opening projected onto it
\* yields exactly one piece, [0, length] by [0, wall height].
C8_OnePiece_From1mm ==
    plan.loaded =>
        \A i \in 1..Len(plan.walls) :
            (WallLength(plan.walls[i]) >= Mm(MinWallLengthMm) /\ OpeningsOn(i) = <<>>)
                => PiecesOf(i) = <<FullPiece(i)>>

\* C8 amended: every wall of at least 60 mm with no opening projected onto it
\* yields exactly one piece, [0, length] by [0, wall height].
C8_OnePiece_From60mm ==
    plan.loaded =>
        \A i \in 1..Len(plan.walls) :
            (WallLength(plan.walls[i]) >= Mm(MinPieceLengthMm) /\ OpeningsOn(i) = <<>>)
                => PiecesOf(i) = <<FullPiece(i)>>

C8_Witness ==
    /\ plan.loaded
    /\ Len(plan.doors) + Len(plan.windows) > 0
    /\ \E i \in 1..Len(plan.walls) :
           /\ WallLength(plan.walls[i]) >= Mm(MinPieceLengthMm)
           /\ OpeningsOn(i) = <<>>
           /\ PiecesOf(i) = <<FullPiece(i)>>

\* The horizontal segments of wall wallIdx the segmenter builds pieces for.
SegmentsOf(wallIdx) ==
    LET points == dedupedSplitPoints(WallLength(plan.walls[wallIdx]), OpeningsOn(wallIdx))
    IN  {<<points[k], points[k + 1]>> : k \in 1..(Len(points) - 1)}

\* The vertical spans of the pieces emitted over segment seg of wall wallIdx.
EmittedSpans(wallIdx, seg) ==
    {<<scene.pieces[k].bottomMm, scene.pieces[k].topMm>> :
        k \in {j \in 1..Len(scene.pieces) :
                  /\ scene.pieces[j].wall = wallIdx
                  /\ scene.pieces[j].startMm = seg[1]
                  /\ scene.pieces[j].endMm = seg[2]}}

\* The bands subtracted over segment seg of wall wallIdx.
SubtractedBands(wallIdx, seg) ==
    LET over == overlappingOpenings(OpeningsOn(wallIdx), seg[1], seg[2])
    IN  {<<over[k].bottomMm, over[k].topMm>> : k \in 1..Len(over)}

Apart(x, y) == x[2] <= y[1] \/ y[2] <= x[1]

\* The intervals between neighbouring end points of the given intervals in [0, top].
Elementary(intervals, top) ==
    LET ends == {0, top} \cup {e \in UNION {{x[1], x[2]} : x \in intervals} : 0 <= e /\ e <= top}
    IN  {<<lo, hi>> \in ends \X ends : lo < hi /\ ~\E e \in ends : lo < e /\ e < hi}

Within(gap, intervals) == \E x \in intervals : x[1] <= gap[1] /\ gap[2] <= x[2]

\* Spans and bands of a segment leave no gap of [0, H] of minGap or more.
PartitionUpTo(wallIdx, seg, minGap) ==
    LET spans == EmittedSpans(wallIdx, seg)
        bands == SubtractedBands(wallIdx, seg)
    IN  /\ \A x \in spans : \A y \in spans : x # y => Apart(x, y)
        /\ \A x \in spans : \A y \in bands : Apart(x, y)
        /\ \A x \in spans : 0 <= x[1] /\ x[1] < x[2] /\ x[2] <= SceneWallHeight
        /\ \A gap \in Elementary(spans \cup bands, SceneWallHeight) :
               Within(gap, spans \cup bands) \/ gap[2] - gap[1] < minGap

SegmentedWalls ==
    {i \in 1..Len(plan.walls) : WallLength(plan.walls[i]) >= Mm(MinWallLengthMm)}

LongSegmentsOf(wallIdx) ==
    {seg \in SegmentsOf(wallIdx) : seg[2] - seg[1] >= Mm(MinPieceLengthMm)}

\* C7 as stated: over every horizontal piece, the vertical spans emitted as
\* pieces are pairwise non-overlapping, disjoint from every subtracted band,
\* and together with the bands cover all of [0, H].
C7_EmittedSpansPartition ==
    plan.loaded =>
        \A i \in SegmentedWalls : \A seg \in LongSegmentsOf(i) : PartitionUpTo(i, seg, 1)

\* C7 amended: over every horizontal piece, the vertical spans emitted as
\* pieces are pairwise non-overlapping, disjoint from every subtracted band,
\* and together with the bands cover [0, H] except for gaps shorter than
\* 60 mm (the spans the segmenter drops as too low).
C7_EmittedSpansPartitionButSlivers ==
    plan.loaded =>
        \A i \in SegmentedWalls : \A seg \in LongSegmentsOf(i) :
            PartitionUpTo(i, seg, Mm(MinPieceHeightMm))

C7_Witness ==
    /\ plan.loaded
    /\ \E i \in SegmentedWalls : \E seg \in LongSegmentsOf(i) :
           /\ Cardinality(SubtractedBands(i, seg)) >= 2
           /\ EmittedSpans(i, seg) # {}
           /\ ~PartitionUpTo(i, seg, 1)

\* list without its k-th element.
Without(list, k) == SubSeq(list, 1, k - 1) \o SubSeq(list, k + 1, Len(list))

\* The wall pose.wall has the fitted span of pose among its subtracted openings.
CutInAnchoredWall(pose) ==
    \E k \in 1..Len(OpeningsOn(pose.wall)) :
        /\ OpeningsOn(pose.wall)[k].startMm = pose.startMm
        /\ OpeningsOn(pose.wall)[k].endMm = pose.endMm

\* Every wall but pose.wall has the pieces it has in planWithout, the plan
\* without the opening.
OtherWallsUnaffected(pose, planWithout) ==
    \A v \in 1..Len(plan.walls) :
        v # pose.wall => PiecesOf(v) = wallPieces(planWithout, settings, v, SceneWallHeight)

\* C6 as stated: whenever an opening is anchored to wall W (alignment at least
\* 0.84, lowest fit score), W's segmentation subtracts the opening's fitted
\* span, and the pieces of every other wall are those of the plan without the
\* opening.
C6_VoidOnlyInAnchoredWall ==
    plan.loaded =>
        /\ \A i \in 1..Len(plan.doors) :
               scene.doorPoses[i].wall # 0 =>
                   /\ CutInAnchoredWall(scene.doorPoses[i])
                   /\ OtherWallsUnaffected(scene.doorPoses[i],
                                           [plan EXCEPT !.doors = Without(plan.doors, i)])
        /\ \A i \in 1..Len(plan.windows) :
               scene.windowPoses[i].wall # 0 =>
                   /\ CutInAnchoredWall(scene.windowPoses[i])
                   /\ OtherWallsUnaffected(scene.windowPoses[i],
                                           [plan EXCEPT !.windows = Without(plan.windows, i)])

(***************************************************************************)
(* Inputs of the anchoring operations                                      *)
(***************************************************************************)

\* Walls handed to the anchoring operations: the 4 m wall, a thinner wall at
\* right angles, a wall parallel to the first 200 mm away, a wall shorter than
\* any accepted span, and a degenerate wall of one grid unit.
ProbeWalls ==
    <<Wall(Pt(0, 0), Pt(4000, 0), 200),
      Wall(Pt(0, 3000), Pt(0, 0), 150),
      Wall(Pt(0, 200), Pt(4000, 200), 200),
      Wall(Pt(0, 0), Pt(50, 0), 200),
      Wall(<<0, 0>>, <<1, 0>>, 200)>>

\* Openings handed to the anchoring operations: on the axis of the first wall;
\* parallel to the second wall 130 mm off; parallel to the first wall 150 mm
\* and 160 mm off; across the first wall at right angles; 300 mm long askew
\* with alignment 0.8; 2000 mm long at 69.4 degrees (alignment 0.352); 510 mm
\* long askew with alignment 15/17; midway between the first and the third
\* wall; shorter than 20 mm on the axis of the first wall.
ProbeOpenings ==
    <<Door(Pt(1000, 0), Pt(1900, 0)),
      Door(Pt(130, 500), Pt(130, 1500)),
      Door(Pt(1000, 150), Pt(1900, 150)),
      Door(Pt(1000, 160), Pt(1900, 160)),
      Door(Pt(2000, -100), Pt(2000, 100)),
      Door(Pt(1000, -90), Pt(1240, 90)),
      Door(Pt(1000, 0), Pt(1704, 1872)),
      Door(Pt(1000, -120), Pt(1450, 120)),
      Door(Pt(1000, 100), Pt(1900, 100)),
      Door(Pt(1000, 0), Pt(1010, 0))>>

MaxProbeWalls == 2

\* The opening on the axis of wall from 500 mm before its start to 500 mm
\* beyond its end.
CoveringOpening(wall) ==
    LET dx == wall.end[1] - wall.start[1]
        dy == wall.end[2] - wall.start[2]
        wallLengthMm == Hypot(dx, dy)
        ux == dx \div wallLengthMm
        uy == dy \div wallLengthMm
    IN  Door(<<wall.start[1] - ux * Mm(500), wall.start[2] - uy * Mm(500)>>,
             <<wall.end[1] + ux * Mm(500), wall.end[2] + uy * Mm(500)>>)

Reversed(opening) == [start |-> opening.end, end |-> opening.start]

\* Lists of up to MaxProbeWalls different walls, in any order.
ProbeWallLists ==
    UNION {{list \in [1..n -> 1..Len(ProbeWalls)] :
                \A i, j \in 1..n : i # j => list[i] # list[j]} : n \in 0..MaxProbeWalls}

WallsOf(list) == [i \in 1..Len(list) |-> ProbeWalls[list[i]]]

\* The openings tried against walls: the fixed ones and, for each wall, the
\* opening covering it, drawn in either direction.
OpeningsFor(walls) ==
    {ProbeOpenings[k] : k \in 1..Len(ProbeOpenings)}
    \cup {CoveringOpening(walls[i]) : i \in 1..Len(walls)}
    \cup {Reversed(CoveringOpening(walls[i])) : i \in 1..Len(walls)}

(***************************************************************************)
(* Actions applying the anchoring operations                               *)
(***************************************************************************)

View3DIdle ==
    /\ plan = NoPlan
    /\ settings = DEFAULT_VIEW3D_SETTINGS
    /\ scene = EmptyScene
    /\ phVersion = 0

InitAnchor ==
    /\ \E list \in ProbeWallLists :
           \E opening \in OpeningsFor(WallsOf(list)) :
               probe = [walls |-> WallsOf(list), start |-> opening.start,
                        end |-> opening.end]
    /\ answer = NoAnswer
    /\ View3DIdle
    /\ IntervalIdle
    /\ PlanModeIdle

\* projectOpeningToWall(wall, start, end) and
\* projectOpeningToWall(wall, start, end, 0.84) on one wall of the list.
Project ==
    \E i \in 1..Len(probe.walls) :
        \E minAlignment \in {DefaultMinAlignment, AnchorMinAlignment} :
            /\ answer' = [op |-> "projectOpeningToWall", wall |-> i,
                          minAlignment |-> minAlignment,
                          result |-> projectOpeningToWall(probe.walls[i], probe.start,
                                                          probe.end, minAlignment)]
            /\ UNCHANGED <<probe, view3dVars, intervalVars, planModeVars>>

\* anchorOpeningPose(walls, start, end) of the 3D views.
Anchor ==
    /\ answer' = [op |-> "anchorOpeningPose",
                  result |-> anchorOpeningPose(probe.walls, probe.start, probe.end)]
    /\ UNCHANGED <<probe, view3dVars, intervalVars, planModeVars>>

\* projectOpeningToNearestWall(start, end, walls) of the 2D editor.
Nearest ==
    /\ answer' = [op |-> "projectOpeningToNearestWall",
                  result |-> projectOpeningToNearestWall(probe.start, probe.end,
                                                         probe.walls)]
    /\ UNCHANGED <<probe, view3dVars, intervalVars, planModeVars>>

\* The plan whose walls are walls and whose one door is the probe's opening.
ProbePlan(walls) ==
    [EmptyPlan EXCEPT !.walls = walls, !.doors = <<Door(probe.start, probe.end)>>]

\* The wall segmentation loop of the 3D views on plan p under the default
\* settings.
segmentation(p) ==
    AllWallPieces(p, DEFAULT_VIEW3D_SETTINGS, 1,
                  clamp(DEFAULT_VIEW3D_SETTINGS.wallHeightMm, Mm(MinWallHeightMm),
                        Mm(MaxWallHeightMm)))

\* The segmentation applied to the probe's walls with the opening as a door.
Segment ==
    /\ answer' = [op |-> "segmentation", result |-> segmentation(ProbePlan(probe.walls))]
    /\ UNCHANGED <<probe, view3dVars, intervalVars, planModeVars>>

NextAnchor == Project \/ Anchor \/ Nearest \/ Segment

SpecAnchor == InitAnchor /\ [][NextAnchor]_vars

(***************************************************************************)
(* Properties of the anchoring operations                                  *)
(***************************************************************************)

\* Unit direction of an axis-parallel wall.
Direction(wall) ==
    <<(wall.end[1] - wall.start[1]) \div WallLength(wall),
      (wall.end[2] - wall.start[2]) \div WallLength(wall)>>

\* Position of point along the axis of wall, from the wall's start.
Along(wall, point) ==
    (point[1] - wall.start[1]) * Direction(wall)[1]
    + (point[2] - wall.start[2]) * Direction(wall)[2]

\* Perpendicular distance of point from the centerline of wall.
Lateral(wall, point) ==
    Abs((point[2] - wall.start[2]) * Direction(wall)[1]
        - (point[1] - wall.start[1]) * Direction(wall)[2])

\* The last operation attached the opening to wall i of the list.
ProjectedOn(i) ==
    answer.op = "projectOpeningToWall" /\ answer.wall = i /\ answer.result.ok

AnchoredTo(i) ==
    answer.op = "anchorOpeningPose" /\ answer.result.ok /\ answer.result.wall = i

NearestIs(i) ==
    answer.op = "projectOpeningToNearestWall" /\ answer.result.wall = i

\* The opening is parallel to wall and further from its centerline than
\* max(thickness * 0.75, 120 mm).
ParallelBeyondTolerance(wall) ==
    /\ probe.start # probe.end
    /\ (probe.end[1] - probe.start[1]) * Direction(wall)[2]
       = (probe.end[2] - probe.start[2]) * Direction(wall)[1]
    /\ 4 * Lateral(wall, probe.start) > Max(3 * wall.thickness, 4 * Mm(120))

\* C3 as stated: an opening parallel to a wall and offset from its centerline
\* by more than max(thickness * 0.75, 120 mm) is attached to that wall by no
\* operation: not by projectOpeningToWall, not by anchorOpeningPose, not by
\* the 2D editor's projectOpeningToNearestWall.
C3_DistanceRejection ==
    \A i \in 1..Len(probe.walls) :
        ParallelBeyondTolerance(probe.walls[i])
            => ~(ProjectedOn(i) \/ AnchoredTo(i) \/ NearestIs(i))

\* alignment = |opening direction . wall direction| / opening length < 0.84,
\* compared on squares: (25 * dot)^2 < 21^2 * length^2.
AlignmentBelow84(wall) ==
    LET odx == probe.end[1] - probe.start[1]
        ody == probe.end[2] - probe.start[2]
        dot == Abs(odx * Direction(wall)[1] + ody * Direction(wall)[2])
    IN  /\ probe.start # probe.end
        /\ ProdLess(25 * dot, 25 * dot, 21 * 21, odx * odx + ody * ody)

\* C4: a wall against which the opening's alignment is below 0.84 is never the
\* wall selected by anchorOpeningPose or by projectOpeningToNearestWall,
\* however close to the wall the opening lies.
C4_AlignmentRejection ==
    \A i \in 1..Len(probe.walls) :
        AlignmentBelow84(probe.walls[i]) => ~(AnchoredTo(i) \/ NearestIs(i))

\* The opening 300 mm long with alignment 0.8, within 90 mm of the first
\* wall's centerline over a span of 240 mm, was anchored and found no wall.
C4_Witness ==
    /\ answer.op = "anchorOpeningPose"
    /\ Len(probe.walls) >= 1
    /\ probe.walls[1] = ProbeWalls[1]
    /\ probe.start = ProbeOpenings[6].start
    /\ probe.end = ProbeOpenings[6].end
    /\ AlignmentBelow84(probe.walls[1])
    /\ 4 * Lateral(probe.walls[1], probe.start) <= 4 * Mm(120)
    /\ 4 * Lateral(probe.walls[1], probe.end) <= 4 * Mm(120)
    /\ ~answer.result.ok

\* The opening lies on the axis of wall and its ends project to -500 mm or
\* before and to 500 mm beyond the wall's length or further.
Covers(wall) ==
    /\ Lateral(wall, probe.start) = 0
    /\ Lateral(wall, probe.end) = 0
    /\ Min(Along(wall, probe.start), Along(wall, probe.end)) <= -Mm(500)
    /\ Max(Along(wall, probe.start), Along(wall, probe.end)) >= WallLength(wall) + Mm(500)

SpanIsWholeWall(i) ==
    /\ answer.result.ok
    /\ answer.result.startMm = 0
    /\ answer.result.endMm = WallLength(probe.walls[i])

\* C5 as stated: for a wall of any length L, projecting an opening on the
\* wall's axis that covers [-500, L+500] returns a match with span [0, L].
C5_SpanClamping ==
    \A i \in 1..Len(probe.walls) :
        (answer.op = "projectOpeningToWall" /\ answer.wall = i /\ Covers(probe.walls[i]))
            => SpanIsWholeWall(i)

\* C5 amended: for a wall of length L of at least 120 mm, projecting an opening
\* on the wall's axis that covers [-500, L+500] returns a match with span
\* [0, L]; for a shorter wall it returns no match.
C5_SpanClampingFrom120 ==
    \A i \in 1..Len(probe.walls) :
        (answer.op = "projectOpeningToWall" /\ answer.wall = i /\ Covers(probe.walls[i]))
            => IF WallLength(probe.walls[i]) >= Mm(120)
               THEN SpanIsWholeWall(i)
               ELSE ~answer.result.ok

\* An opening covering the wall at right angles, drawn against the wall's
\* direction, was projected and clamped to the whole wall.
C5_Witness ==
    /\ answer.op = "projectOpeningToWall"
    /\ probe.walls[answer.wall] = ProbeWalls[2]
    /\ Covers(ProbeWalls[2])
    /\ Along(ProbeWalls[2], probe.start) > Along(ProbeWalls[2], probe.end)
    /\ SpanIsWholeWall(answer.wall)
    /\ answer.result.endMm = Mm(3000)

(***************************************************************************)
(* Interval subtraction applied cut after cut                              *)
(***************************************************************************)

\* Heights are counted in levels 0..MaxLevel; (0, MaxLevel) is the full wall.
MaxLevel == 3

MaxCuts == 3

\* `let spans = [[0, wallHeightMm]]`
FullHeight == <<(<<0, MaxLevel>>)>>

\* Every pair of levels is a cut: proper, empty (equal ends) or reversed.
Cuts == (0..MaxLevel) \X (0..MaxLevel)

InitInterval ==
    /\ source = FullHeight
    /\ applied = <<>>
    /\ before = FullHeight
    /\ View3DIdle
    /\ AnchorIdle
    /\ PlanModeIdle

\* `spans = subtractInterval(spans, [bottomMm, topMm])`
Subtract ==
    \E cut \in Cuts :
        /\ Len(applied) < MaxCuts
        /\ before' = source
        /\ source' = subtractInterval(source, cut)
        /\ applied' = Append(applied, cut)
        /\ UNCHANGED <<view3dVars, anchorVars, planModeVars>>

NextInterval == Subtract

SpecInterval == InitInterval /\ [][NextInterval]_vars

(***************************************************************************)
(* Properties of interval subtraction                                      *)
(***************************************************************************)

LastCut == applied[Len(applied)]

\* The level cell [k, k+1] lies in one interval of list.
Holds(list, k) == \E j \in 1..Len(list) : list[j][1] <= k /\ k + 1 <= list[j][2]

\* Non-empty intervals, each ending before the next one starts.
DisjointInOrder(list) ==
    /\ \A j \in 1..Len(list) : list[j][1] < list[j][2]
    /\ \A j \in 1..(Len(list) - 1) : list[j][2] <= list[j + 1][1]

\* Positions in list of the intervals lying within interval.
PartsOf(list, interval) ==
    {i \in 1..Len(list) : interval[1] <= list[i][1] /\ list[i][2] <= interval[2]}

\* C9: subtractInterval is set difference on a list of disjoint intervals.  An
\* empty or reversed cut returns the list unchanged.  Otherwise the result is
\* a list of disjoint non-empty intervals in the order of the source, it
\* covers exactly the part of the source outside the cut, an interval apart
\* from the cut is kept as it is, an interval inside the cut is removed, and an
\* interval partly overlapped leaves one part (truncated) or two (split).
C9_SubtractIsSetDifference ==
    applied # <<>> =>
        IF LastCut[2] <= LastCut[1] THEN source = before
        ELSE /\ DisjointInOrder(source)
             /\ \A k \in 0..(MaxLevel - 1) :
                    Holds(source, k)
                        <=> (Holds(before, k) /\ ~(LastCut[1] <= k /\ k + 1 <= LastCut[2]))
             /\ \A i \in 1..Len(source) :
                    \E j \in 1..Len(before) : i \in PartsOf(source, before[j])
             /\ \A j \in 1..Len(before) :
                    IF LastCut[2] <= before[j][1] \/ LastCut[1] >= before[j][2]
                    THEN \E i \in 1..Len(source) : source[i] = before[j]
                    ELSE IF LastCut[1] <= before[j][1] /\ before[j][2] <= LastCut[2]
                    THEN PartsOf(source, before[j]) = {}
                    ELSE Cardinality(PartsOf(source, before[j])) \in {1, 2}

\* After an earlier cut had split the full height in two, a cut removed the
\* upper interval and kept the lower one.
C9_Witness ==
    /\ Len(applied) >= 2
    /\ LastCut[1] < LastCut[2]
    /\ Len(before) = 2
    /\ source = <<before[1]>>

\* The cuts taken in the order given by order, subtracted from spans.
RECURSIVE SubtractInOrder(_, _, _, _)
SubtractInOrder(spans, cuts, order, k) ==
    IF k > Len(cuts) THEN spans
    ELSE SubtractInOrder(subtractInterval(spans, cuts[order[k]]), cuts, order, k + 1)

\* The orders in which n cuts can be taken.
Orders(n) == Permutations(1..n)

\* C10: starting from [(0, H)], the cuts subtracted so far give the same list
\* of intervals in whichever order they are subtracted.
C10_OrderIndependent ==
    \A order \in Orders(Len(applied)) :
        SubtractInOrder(FullHeight, applied, order, 1) = source

\* Three different proper cuts, the first two overlapping, have been
\* subtracted and something of the wall is left.
C10_Witness ==
    /\ Len(applied) = 3
    /\ \A k \in 1..3 : applied[k][1] < applied[k][2]
    /\ applied[1] # applied[2] /\ applied[2] # applied[3] /\ applied[1] # applied[3]
    /\ applied[1][1] < applied[2][2] /\ applied[2][1] < applied[1][2]
    /\ source # <<>>

(***************************************************************************)
(* Properties of the choice among walls                                    *)
(***************************************************************************)

RawLength == Hypot(probe.end[1] - probe.start[1], probe.end[2] - probe.start[2])

\* What project returns for wall i with min_alignment 0.84, and its fit score
\* with K = 400.
Projection3D(i) ==
    projectOpeningToWall(probe.walls[i], probe.start, probe.end, AnchorMinAlignment)

Score3D(i) == FitScore(Projection3D(i), RawLength, AlignmentWeight3D)

\* The same for the loop body of the 2D editor, with K = 250.
Projection2D(i) == nearestWallCandidate(probe.walls[i], probe.start, probe.end)

Score2D(i) == FitScore(Projection2D(i), RawLength, AlignmentWeight2D)

Matching3D == {i \in 1..Len(probe.walls) : Projection3D(i).ok}

Matching2D == {i \in 1..Len(probe.walls) : Projection2D(i).ok}

\* C11: anchor returns no match exactly when project fails for every wall;
\* otherwise it returns the projection on a wall whose fit score no other
\* matching wall undercuts, and among walls of that score the earliest in the
\* list.  Stated for anchorOpeningPose and for projectOpeningToNearestWall.
C11_LowestScoreFirstWins ==
    /\ answer.op = "anchorOpeningPose" =>
           IF Matching3D = {} THEN ~answer.result.ok
           ELSE /\ answer.result.ok
                /\ answer.result.wall \in Matching3D
                /\ answer.result.start = Projection3D(answer.result.wall).startPoint
                /\ answer.result.end = Projection3D(answer.result.wall).endPoint
                /\ \A i \in Matching3D :
                       /\ Score3D(answer.result.wall) <= Score3D(i)
                       /\ Score3D(i) = Score3D(answer.result.wall) => answer.result.wall <= i
    /\ answer.op = "projectOpeningToNearestWall" =>
           IF Matching2D = {} THEN answer.result.wall = 0
           ELSE /\ answer.result.wall \in Matching2D
                /\ answer.result.start = Projection2D(answer.result.wall).startPoint
                /\ answer.result.end = Projection2D(answer.result.wall).endPoint
                /\ \A i \in Matching2D :
                       /\ Score2D(answer.result.wall) <= Score2D(i)
                       /\ Score2D(i) = Score2D(answer.result.wall) => answer.result.wall <= i

\* The opening midway between two parallel walls fits both with one score, and
\* anchorOpeningPose returned the first of the list, here the upper wall.
C11_Witness ==
    /\ answer.op = "anchorOpeningPose"
    /\ Len(probe.walls) = 2
    /\ probe.walls[1] = ProbeWalls[3]
    /\ probe.walls[2] = ProbeWalls[1]
    /\ Matching3D = {1, 2}
    /\ Score3D(1) = Score3D(2)
    /\ answer.result.ok
    /\ answer.result.wall = 1

\* |opening direction . wall direction|: alignment times the opening's length.
DotWith(wall) ==
    Abs((probe.end[1] - probe.start[1]) * Direction(wall)[1]
        + (probe.end[2] - probe.start[2]) * Direction(wall)[2])

\* Twice the average perpendicular distance of the opening's ends from wall.
DistanceSum(wall) == Lateral(wall, probe.start) + Lateral(wall, probe.end)

\* Walls i and j give the opening the same alignment and, by spans p and q of
\* the same length, the same trim penalty, and wall i is the nearer one.
NearerAllElseEqual(i, j, p, q) ==
    /\ DotWith(probe.walls[i]) = DotWith(probe.walls[j])
    /\ p.endMm - p.startMm = q.endMm - q.startMm
    /\ DistanceSum(probe.walls[i]) < DistanceSum(probe.walls[j])

\* C12 (Scenario D): of two walls that both pass project with equal alignment
\* and equal trim penalty, anchor never selects the one with the higher
\* average perpendicular distance, wherever the two stand in the list; with no
\* third candidate it selects the nearer one.
C12_ScenarioD_NearerWall ==
    /\ answer.op = "anchorOpeningPose" =>
           \A i, j \in Matching3D :
               NearerAllElseEqual(i, j, Projection3D(i), Projection3D(j))
                   => /\ answer.result.ok
                      /\ answer.result.wall # j
                      /\ Matching3D = {i, j} => answer.result.wall = i
    /\ answer.op = "projectOpeningToNearestWall" =>
           \A i, j \in Matching2D :
               NearerAllElseEqual(i, j, Projection2D(i), Projection2D(j))
                   => /\ answer.result.wall # j
                      /\ Matching2D = {i, j} => answer.result.wall = i

\* The opening 150 mm off the first wall and 50 mm off the wall parallel to it
\* fits both; anchorOpeningPose returned the nearer wall, the second of the list.
C12_Witness ==
    /\ answer.op = "anchorOpeningPose"
    /\ probe.walls = <<ProbeWalls[1], ProbeWalls[3]>>
    /\ Matching3D = {1, 2}
    /\ NearerAllElseEqual(2, 1, Projection3D(2), Projection3D(1))
    /\ answer.result.ok
    /\ answer.result.wall = 2

(***************************************************************************)
(* Properties of the frames placed in the scene                            *)
(***************************************************************************)

\* Frame frame stands at the segment of opening as the plan gives it.
AtRawSegment(frame, opening) ==
    frame.shown /\ frame.start = opening.start /\ frame.end = opening.end

\* C13 as stated, for the 3D view: a door or window for which anchor finds no
\* wall is not dropped; its frame is rendered at the pose of its raw segment.
C13_NoMatchFallback ==
    plan.loaded =>
        /\ \A i \in 1..Len(plan.doors) :
               scene.doorPoses[i].wall = 0
                   => AtRawSegment(scene.legacy.doors[i], plan.doors[i])
        /\ \A i \in 1..Len(plan.windows) :
               scene.windowPoses[i].wall = 0
                   => AtRawSegment(scene.legacy.windows[i], plan.windows[i])

(***************************************************************************)
(* Properties of the pieces against the openings                           *)
(***************************************************************************)

\* The rectangles of piece and opening have an interior point in common.
InteriorsMeet(piece, opening) ==
    /\ Max(piece.startMm, opening.startMm) < Min(piece.endMm, opening.endMm)
    /\ Max(piece.bottomMm, opening.bottomMm) < Min(piece.topMm, opening.topMm)

\* C14 as stated: no emitted piece shares an interior point with an opening
\* projected onto its wall.
C14_PiecesOpeningFree ==
    \A k \in 1..Len(scene.pieces) :
        \A n \in 1..Len(OpeningsOn(scene.pieces[k].wall)) :
            ~InteriorsMeet(scene.pieces[k], OpeningsOn(scene.pieces[k].wall)[n])

(***************************************************************************)
(* Properties of what project returns                                      *)
(***************************************************************************)

\* The opening is shorter than 20 mm (on squares).
OpeningBelow20 ==
    (probe.end[1] - probe.start[1]) * (probe.end[1] - probe.start[1])
    + (probe.end[2] - probe.start[2]) * (probe.end[2] - probe.start[2]) < Mm(20) * Mm(20)

\* C15: a wall shorter than 1 mm is matched by no operation, and an opening
\* shorter than 20 mm matches no wall: projectOpeningToWall and
\* anchorOpeningPose return null and projectOpeningToNearestWall returns the
\* raw end points.
C15_DegenerateSegment ==
    /\ \A i \in 1..Len(probe.walls) :
           WallLength(probe.walls[i]) < Mm(1)
               => ~(ProjectedOn(i) \/ AnchoredTo(i) \/ NearestIs(i))
    /\ OpeningBelow20 =>
           /\ answer.op \in {"projectOpeningToWall", "anchorOpeningPose"}
                  => ~answer.result.ok
           /\ answer.op = "projectOpeningToNearestWall"
                  => /\ answer.result.wall = 0
                     /\ answer.result.start = probe.start
                     /\ answer.result.end = probe.end

\* The 10 mm opening on the axis of the 4 m wall was handed to the 2D editor's
\* function, which returned it as drawn.
C15_Witness ==
    /\ OpeningBelow20
    /\ probe.start # probe.end
    /\ Len(probe.walls) >= 1
    /\ probe.walls[1] = ProbeWalls[1]
    /\ Lateral(probe.walls[1], probe.start) = 0
    /\ answer.op = "projectOpeningToNearestWall"
    /\ answer.result.start = probe.start

\* Point lies on the centerline of wall between its two ends.
OnCenterline(wall, point) ==
    /\ Lateral(wall, point) = 0
    /\ 0 <= Along(wall, point)
    /\ Along(wall, point) <= WallLength(wall)

\* C16: every projection returned satisfies 0 <= span_start <= span_end <=
\* wall_length and span_end - span_start >= 120 mm, and the fitted start and
\* end points lie on the wall's centerline between wall.start and wall.end;
\* stated for projectOpeningToWall, for the segment anchorOpeningPose takes
\* its pose from, and for the segment projectOpeningToNearestWall returns.
C16_ProjectionWithinWall ==
    /\ \A i \in 1..Len(probe.walls) :
           ProjectedOn(i) =>
               /\ 0 <= answer.result.startMm
               /\ answer.result.startMm <= answer.result.endMm
               /\ answer.result.endMm <= WallLength(probe.walls[i])
               /\ answer.result.endMm - answer.result.startMm >= Mm(120)
               /\ OnCenterline(probe.walls[i], answer.result.startPoint)
               /\ OnCenterline(probe.walls[i], answer.result.endPoint)
               /\ Along(probe.walls[i], answer.result.startPoint) = answer.result.startMm
               /\ Along(probe.walls[i], answer.result.endPoint) = answer.result.endMm
    /\ \A i \in 1..Len(probe.walls) :
           (AnchoredTo(i) \/ NearestIs(i)) =>
               /\ OnCenterline(probe.walls[i], answer.result.start)
               /\ OnCenterline(probe.walls[i], answer.result.end)
               /\ Along(probe.walls[i], answer.result.end)
                  - Along(probe.walls[i], answer.result.start) >= Mm(120)

\* The door askew across the 4 m wall was projected with min_alignment 0.84:
\* its ends, 120 mm off the centerline, were fitted onto the centerline.
C16_Witness ==
    /\ answer.op = "projectOpeningToWall"
    /\ answer.result.ok
    /\ probe.walls[answer.wall] = ProbeWalls[1]
    /\ Lateral(ProbeWalls[1], probe.start) = Mm(120)
    /\ Lateral(ProbeWalls[1], probe.end) = Mm(120)
    /\ answer.result.startMm = Mm(1000)
    /\ answer.result.endMm = Mm(1450)

(***************************************************************************)
(* Properties of the height bands                                          *)
(***************************************************************************)

\* The openings the doors alone, and the windows alone, give wall wallIdx.
DoorBandsOn(wallIdx) ==
    buildOpeningsForWall(plan.walls[wallIdx], plan.doors, <<>>, SceneWallHeight,
                         settings.doorHeightMm, settings.windowSillMm)

WindowBandsOn(wallIdx) ==
    buildOpeningsForWall(plan.walls[wallIdx], <<>>, plan.windows, SceneWallHeight,
                         settings.doorHeightMm, settings.windowSillMm)

\* C17: the wall height H lies in [1800, 6000]; every door band handed to the
\* segmenter is [0, h] with h the door height clamped to [1000, H - 40]; every
\* window band ends at or below H - 50; every band has 0 <= bottom < top <= H,
\* so that no opening of non-positive height reaches the segmenter.
C17_BandsClamped ==
    plan.loaded =>
        /\ Mm(1800) <= SceneWallHeight /\ SceneWallHeight <= Mm(6000)
        /\ \A w \in 1..Len(plan.walls) :
               /\ \A n \in 1..Len(DoorBandsOn(w)) :
                      /\ DoorBandsOn(w)[n].bottomMm = 0
                      /\ DoorBandsOn(w)[n].topMm
                         = Min(SceneWallHeight - Mm(40), Max(Mm(1000), settings.doorHeightMm))
               /\ \A n \in 1..Len(WindowBandsOn(w)) :
                      WindowBandsOn(w)[n].topMm <= SceneWallHeight - Mm(50)
               /\ OpeningsOn(w) = DoorBandsOn(w) \o WindowBandsOn(w)
               /\ \A n \in 1..Len(OpeningsOn(w)) :
                      /\ 0 <= OpeningsOn(w)[n].bottomMm
                      /\ OpeningsOn(w)[n].bottomMm < OpeningsOn(w)[n].topMm
                      /\ OpeningsOn(w)[n].topMm <= SceneWallHeight

\* Under a ceiling of 1800 mm with a door height of 4000 mm and a sill of
\* 2600 mm set, the first wall has the door cut to 1760 mm and the window cut
\* to the band [1600, 1750].
C17_Witness ==
    /\ plan.loaded
    /\ Len(plan.walls) >= 1
    /\ settings.wallHeightMm = Mm(1800)
    /\ settings.doorHeightMm = Mm(4000)
    /\ settings.windowSillMm = Mm(2600)
    /\ Len(DoorBandsOn(1)) = 1
    /\ DoorBandsOn(1)[1].topMm = Mm(1760)
    /\ Len(WindowBandsOn(1)) = 1
    /\ WindowBandsOn(1)[1].bottomMm = Mm(1600)
    /\ WindowBandsOn(1)[1].topMm = Mm(1750)

(***************************************************************************)
(* Properties of the placement in the two views                            *)
(***************************************************************************)

\* Two angles kept as pairs are the same rotation: the pairs point the same way.
SameAngle(a, b) ==
    /\ a[1] * b[2] = a[2] * b[1]
    /\ a[1] * b[1] + a[2] * b[2] > 0

SamePlacement(a, b) == a.position = b.position /\ SameAngle(a.rotation, b.rotation)

\* C18 as stated: the legacy view and the textured view place every wall piece
\* and every opening frame they both show at the same scene (x, z) position
\* and with the same rotation about the vertical axis.
C18_OneAxisConvention ==
    /\ \A k \in 1..Len(scene.pieces) :
           SamePlacement(scene.legacy.pieces[k], scene.textured.pieces[k])
    /\ \A i \in 1..Len(scene.legacy.doors) :
           (scene.legacy.doors[i].shown /\ scene.textured.doors[i].shown)
               => SamePlacement(scene.legacy.doors[i], scene.textured.doors[i])
    /\ \A i \in 1..Len(scene.legacy.windows) :
           (scene.legacy.windows[i].shown /\ scene.textured.windows[i].shown)
               => SamePlacement(scene.legacy.windows[i], scene.textured.windows[i])

\* Frame frame stands on the fitted span of pose, the anchored segment.
OnFittedSpan(frame, pose) ==
    frame.shown /\ frame.start = pose.start /\ frame.end = pose.end

\* C19 as stated: for every door and window for which anchor finds a wall,
\* the frame of the legacy view and the frame of the textured view both stand
\* on the fitted span on the anchored wall's centerline.
C19_FramesAtAnchoredPose ==
    plan.loaded =>
        /\ \A i \in 1..Len(plan.doors) :
               scene.doorPoses[i].wall # 0 =>
                   /\ OnFittedSpan(scene.legacy.doors[i], scene.doorPoses[i])
                   /\ OnFittedSpan(scene.textured.doors[i], scene.doorPoses[i])
        /\ \A i \in 1..Len(plan.windows) :
               scene.windowPoses[i].wall # 0 =>
                   /\ OnFittedSpan(scene.legacy.windows[i], scene.windowPoses[i])
                   /\ OnFittedSpan(scene.textured.windows[i], scene.windowPoses[i])

Degenerate(wall) == WallLength(wall) < Mm(MinWallLengthMm)

\* walls without its degenerate walls, and the index there of walls[i].
KeptWalls(walls) == SelectSeq(walls, LAMBDA wall : ~Degenerate(wall))

KeptIndex(walls, i) ==
    IF i = 0 THEN 0 ELSE Cardinality({j \in 1..i : ~Degenerate(walls[j])})

\* result names the wall with KeptWalls' index in place of walls' index.
Renumbered(result, walls) ==
    IF "wall" \in DOMAIN result
    THEN [result EXCEPT !.wall = KeptIndex(walls, result.wall)]
    ELSE result

\* C21: a wall shorter than 1 mm yields no piece, no projection and is not
\* chosen by anchorOpeningPose or projectOpeningToNearestWall; and every
\* result is what the same call returns for the list without the degenerate
\* walls (every call returns: a result or "no match").
C21_DegenerateWallsIgnored ==
    /\ \A i \in 1..Len(probe.walls) :
           Degenerate(probe.walls[i]) =>
               /\ ~ProjectedOn(i) /\ ~AnchoredTo(i) /\ ~NearestIs(i)
               /\ answer.op = "segmentation" =>
                      \A k \in 1..Len(answer.result) : answer.result[k].wall # i
    /\ answer.op = "anchorOpeningPose" =>
           Renumbered(answer.result, probe.walls)
               = anchorOpeningPose(KeptWalls(probe.walls), probe.start, probe.end)
    /\ answer.op = "projectOpeningToNearestWall" =>
           Renumbered(answer.result, probe.walls)
               = projectOpeningToNearestWall(probe.start, probe.end, KeptWalls(probe.walls))
    /\ answer.op = "segmentation" =>
           [k \in 1..Len(answer.result) |-> Renumbered(answer.result[k], probe.walls)]
               = segmentation(ProbePlan(KeptWalls(probe.walls)))

\* A degenerate wall stands before a wall that the opening is anchored to
\* and cuts, and the answer is about that wall.
C21_Witness ==
    /\ Len(probe.walls) = 2
    /\ Degenerate(probe.walls[1])
    /\ \/ AnchoredTo(2)
       \/ NearestIs(2)
       \/ answer.op = "segmentation" /\ Len(answer.result) >= 3

\* C22: every piece of the scene is at least 60 mm long and 60 mm high and
\* lies inside its wall: 0 <= start < end <= wall length and
\* 0 <= bottom < top <= wall height.
C22_PiecesAtLeast60mmInsideWall ==
    \A k \in 1..Len(scene.pieces) :
        LET piece == scene.pieces[k]
        IN  /\ piece.endMm - piece.startMm >= Mm(MinPieceLengthMm)
            /\ piece.topMm - piece.bottomMm >= Mm(MinPieceHeightMm)
            /\ 0 <= piece.startMm /\ piece.startMm < piece.endMm
            /\ piece.endMm <= WallLength(plan.walls[piece.wall])
            /\ 0 <= piece.bottomMm /\ piece.bottomMm < piece.topMm
            /\ piece.topMm <= SceneWallHeight

\* A wall of the plan is at least 1 mm and less than 60 mm long and has no
\* piece, and over a segment of another wall a span lower than 60 mm is left
\* without a piece (the case of C7_Witness).
C22_Witness ==
    /\ plan.loaded
    /\ \E i \in SegmentedWalls :
           WallLength(plan.walls[i]) < Mm(MinPieceLengthMm) /\ PiecesOf(i) = <<>>
    /\ \E i \in SegmentedWalls : \E seg \in LongSegmentsOf(i) :
           EmittedSpans(i, seg) # {} /\ ~PartitionUpTo(i, seg, 1)

\* The band wall wallIdx has subtracted for the one door or window given, as
\* a list of at most one opening.
DoorBandOn(wallIdx, door) ==
    buildOpeningsForWall(plan.walls[wallIdx], <<door>>, <<>>, SceneWallHeight,
                         settings.doorHeightMm, settings.windowSillMm)

WindowBandOn(wallIdx, win) ==
    buildOpeningsForWall(plan.walls[wallIdx], <<>>, <<win>>, SceneWallHeight,
                         settings.doorHeightMm, settings.windowSillMm)

\* The vertical range of frame, where it is shown, lies within every band of
\* bands.
FrameWithin(frame, bands) ==
    frame.shown =>
        \A n \in 1..Len(bands) :
            bands[n].bottomMm <= frame.bottomMm /\ frame.topMm <= bands[n].topMm

\* C23 as stated: in both views the door frame is not higher than the top of
\* the door band subtracted from the wall, and the window frame's range
\* [sill, sill + height] lies within the window band subtracted from the wall.
C23_FramesFitVoids ==
    plan.loaded =>
        \A w \in 1..Len(plan.walls) :
            /\ \A i \in 1..Len(plan.doors) :
                   /\ FrameWithin(scene.legacy.doors[i], DoorBandOn(w, plan.doors[i]))
                   /\ FrameWithin(scene.textured.doors[i], DoorBandOn(w, plan.doors[i]))
            /\ \A i \in 1..Len(plan.windows) :
                   /\ FrameWithin(scene.legacy.windows[i], WindowBandOn(w, plan.windows[i]))
                   /\ FrameWithin(scene.textured.windows[i], WindowBandOn(w, plan.windows[i]))

\* The segment of opening projects onto wall wallIdx (maybeAddOpening's test).
ProjectsOnto(wallIdx, opening) ==
    projectOpeningToWall(plan.walls[wallIdx], opening.start, opening.end,
                         DefaultMinAlignment).ok

\* C24: no window is left out of a wall's openings because of its height:
\* every window that projects onto a wall has a band there, and the band is
\* at least 150 mm high.
C24_WindowNeverDropped ==
    plan.loaded =>
        \A w \in 1..Len(plan.walls) : \A i \in 1..Len(plan.windows) :
            ProjectsOnto(w, plan.windows[i]) =>
                /\ Len(WindowBandOn(w, plan.windows[i])) = 1
                /\ WindowBandOn(w, plan.windows[i])[1].topMm
                   - WindowBandOn(w, plan.windows[i])[1].bottomMm >= Mm(150)

\* The sill setting exceeds what the wall height allows, and a window is cut
\* with the least band, 150 mm high.
C24_Witness ==
    /\ plan.loaded
    /\ settings.windowSillMm > SceneWallHeight - Mm(SillHeadroomMm)
    /\ \E w \in 1..Len(plan.walls) : \E i \in 1..Len(plan.windows) :
           /\ Len(WindowBandOn(w, plan.windows[i])) = 1
           /\ WindowBandOn(w, plan.windows[i])[1].topMm
              - WindowBandOn(w, plan.windows[i])[1].bottomMm = Mm(150)

(***************************************************************************)
(* Plan-mode state with undo and redo (usePlanModeState)                   *)
(***************************************************************************)

MAX_HISTORY == 50

\* list.slice(-n) and list.slice(0, n), for n > 0.
LastN(list, n) ==
    IF Len(list) <= n THEN list ELSE SubSeq(list, Len(list) - n + 1, Len(list))

FirstN(list, n) == IF Len(list) <= n THEN list ELSE SubSeq(list, 1, n)

\* list.filter((e) => e.id !== id)
WithoutId(list, id) == SelectSeq(list, LAMBDA element : element.id # id)

\* What an updater returns for the state s: the state, and whether it is the
\* object s itself (`next === state.present`) or a new object.
\* list.map((d) => (d.id === id ? { ...d, ...patch } : d))
Patched(list, id, patch) ==
    [i \in 1..Len(list) |->
        IF list[i].id = id
        THEN [f \in DOMAIN list[i] |->
                 IF f \in DOMAIN patch THEN patch[f] ELSE list[i][f]]
        ELSE list[i]]

updated(updater, s) ==
    CASE updater.kind = "addWall" ->
             [itself |-> FALSE, state |-> [s EXCEPT !.walls = Append(@, updater.item)]]
      [] updater.kind = "addDoor" ->
             [itself |-> FALSE, state |-> [s EXCEPT !.doors = Append(@, updater.item)]]
      [] updater.kind = "addWindow" ->
             [itself |-> FALSE, state |-> [s EXCEPT !.windows = Append(@, updater.item)]]
      [] updater.kind = "addWalls" ->
             [itself |-> FALSE, state |-> [s EXCEPT !.walls = @ \o updater.items]]
      [] updater.kind = "addLabel" ->
             [itself |-> FALSE, state |-> [s EXCEPT !.labels = Append(@, updater.item)]]
      [] updater.kind = "updateDoor" ->
             [itself |-> FALSE,
              state |-> [s EXCEPT !.doors = Patched(@, updater.id, updater.patch)]]
      [] updater.kind = "updateWindow" ->
             [itself |-> FALSE,
              state |-> [s EXCEPT !.windows = Patched(@, updater.id, updater.patch)]]
      [] updater.kind = "setLot" ->
             [itself |-> FALSE, state |-> [s EXCEPT !.lot = updater.lot]]
      [] updater.kind = "setSetbacks" ->
             [itself |-> FALSE, state |-> [s EXCEPT !.setbacks = updater.setbacks]]
      [] updater.kind = "deleteElement" /\ updater.type = "wall" ->
             [itself |-> FALSE, state |-> [s EXCEPT !.walls = WithoutId(@, updater.id)]]
      [] updater.kind = "deleteElement" /\ updater.type = "door" ->
             [itself |-> FALSE, state |-> [s EXCEPT !.doors = WithoutId(@, updater.id)]]
      [] updater.kind = "deleteElement" /\ updater.type = "window" ->
             [itself |-> FALSE, state |-> [s EXCEPT !.windows = WithoutId(@, updater.id)]]
      [] updater.kind = "deleteElement" /\ updater.type = "label" ->
             [itself |-> FALSE, state |-> [s EXCEPT !.labels = WithoutId(@, updater.id)]]
      [] OTHER -> [itself |-> TRUE, state |-> s]

\* Mutant: MUTATE compares the states' contents, not the objects.
reduceMUTATE_ComparesContents(state, updater) ==
    Const(updated(updater, state.present), LAMBDA next :
        IF next.state = state.present THEN state
        ELSE [past |-> Append(LastN(state.past, MAX_HISTORY - 1), state.present),
              present |-> next.state,
              future |-> <<>>])

\* Mutant: MUTATE keeps all of past.
reduceMUTATE_KeepsAllPast(state, updater) ==
    Const(updated(updater, state.present), LAMBDA next :
        IF next.itself THEN state
        ELSE [past |-> Append(state.past, state.present),
              present |-> next.state,
              future |-> <<>>])

\* case "MUTATE"
reduceMUTATE(state, updater) ==
    Const(updated(updater, state.present), LAMBDA next :
        IF next.itself THEN state
        ELSE [past |-> Append(LastN(state.past, MAX_HISTORY - 1), state.present),
              present |-> next.state,
              future |-> <<>>])

\* Mutant: UNDO forgets the states that could be redone before.
reduceUNDO_DropsFuture(state) ==
    IF Len(state.past) = 0 THEN state
    ELSE [past |-> SubSeq(state.past, 1, Len(state.past) - 1),
          present |-> state.past[Len(state.past)],
          future |-> <<state.present>>]

\* case "UNDO"
reduceUNDO(state) ==
    IF Len(state.past) = 0 THEN state
    ELSE [past |-> SubSeq(state.past, 1, Len(state.past) - 1),
          present |-> state.past[Len(state.past)],
          future |-> <<state.present>> \o FirstN(state.future, MAX_HISTORY - 1)]

\* case "REDO"
reduceREDO(state) ==
    IF Len(state.future) = 0 THEN state
    ELSE [past |-> Append(LastN(state.past, MAX_HISTORY - 1), state.present),
          present |-> state.future[1],
          future |-> Tail(state.future)]

historyReducer(state, action) ==
    CASE action.type = "MUTATE" -> reduceMUTATE(state, action.updater)
      [] action.type = "UNDO" -> reduceUNDO(state)
      [] action.type = "REDO" -> reduceREDO(state)
      [] action.type = "RESET" ->
             [past |-> <<>>, present |-> action.payload, future |-> <<>>]

canUndo == Len(history.past) > 0

canRedo == Len(history.future) > 0

(***************************************************************************)
(* Inputs and actions of the history                                       *)
(***************************************************************************)

\* Walls are added until the plan holds this many (more than MAX_HISTORY).
MaxPlanWalls == 52

\* Elements are deleted only while the history holds fewer entries than this.
MaxEditedHistory == 1

WallItem(id) ==
    [id |-> id, start |-> Pt(0, 0), end |-> Pt(4000, 0), thickness |-> Mm(200)]

\* The updaters dispatched on the state s: addWall of a new wall;
\* deleteElement with a type that is none of the four (the default branch);
\* and, early in the history, deleteElement of the last wall and of a wall
\* that is not there.
Updaters(h) ==
    {[kind |-> "addWall", item |-> WallItem(Len(h.present.walls) + 1)] :
         n \in {k \in {1} : Len(h.present.walls) < MaxPlanWalls}}
    \cup {[kind |-> "deleteElement", type |-> "room", id |-> 1]}
    \cup {[kind |-> "deleteElement", type |-> "wall", id |-> id] :
              id \in {k \in {0, Len(h.present.walls)} :
                         Len(h.past) + Len(h.future) < MaxEditedHistory}}

\* Plans initFromScript resets the history to.
ResetPayloads == {INITIAL_STATE, [INITIAL_STATE EXCEPT !.walls = <<WallItem(1)>>]}

Mutate ==
    \E updater \in Updaters(history) :
        /\ history' = historyReducer(history, [type |-> "MUTATE", updater |-> updater])
        /\ UNCHANGED <<view3dVars, intervalVars, anchorVars, script, editorVars>>

Undo ==
    /\ history' = historyReducer(history, [type |-> "UNDO"])
    /\ UNCHANGED <<view3dVars, intervalVars, anchorVars, script, editorVars>>

Redo ==
    /\ history' = historyReducer(history, [type |-> "REDO"])
    /\ UNCHANGED <<view3dVars, intervalVars, anchorVars, script, editorVars>>

\* initFromScript(parsed)
Reset ==
    \E payload \in ResetPayloads :
        /\ history' = historyReducer(history, [type |-> "RESET", payload |-> payload])
        /\ UNCHANGED <<view3dVars, intervalVars, anchorVars, script, editorVars>>

InitHistory ==
    /\ PlanModeIdle
    /\ View3DIdle
    /\ IntervalIdle
    /\ AnchorIdle

NextHistory == Mutate \/ Undo \/ Redo \/ Reset

SpecHistory == InitHistory /\ [][NextHistory]_vars

(***************************************************************************)
(* Properties of the history                                               *)
(***************************************************************************)

MutateWith(updater) == historyReducer(history, [type |-> "MUTATE", updater |-> updater])

AfterUndo(h) == historyReducer(h, [type |-> "UNDO"])

AfterRedo(h) == historyReducer(h, [type |-> "REDO"])

ReturnsPresentItself(updater) == updated(updater, history.present).itself

C26_HistoryBounded ==
    /\ Len(history.past) + Len(history.future) <= 50
    /\ Len(history.past) <= 50 /\ Len(history.future) <= 50
    /\ canUndo <=> history.past # <<>>
    /\ canRedo <=> history.future # <<>>
    /\ history.past = <<>> => AfterUndo(history) = history
    /\ history.future = <<>> => AfterRedo(history) = history

\* Fifty states have been undone after more than fifty changes: past is
\* empty and future holds MAX_HISTORY states.
C26_Witness ==
    /\ Len(history.future) = MAX_HISTORY
    /\ history.past = <<>>
    /\ Len(history.present.walls) >= 1

\* C27: UNDO then REDO, with past non-empty, and REDO then UNDO, with future
\* non-empty, return the history; UNDO after a MUTATE that changed the state
\* restores the present of before.
C27_UndoRedoInverse ==
    /\ history.past # <<>> => AfterRedo(AfterUndo(history)) = history
    /\ history.future # <<>> => AfterUndo(AfterRedo(history)) = history
    /\ \A updater \in Updaters(history) :
           ~ReturnsPresentItself(updater)
               => AfterUndo(MutateWith(updater)).present = history.present

\* past and future are both non-empty and together hold MAX_HISTORY states.
C27_Witness ==
    /\ Len(history.past) >= 2
    /\ Len(history.future) >= 2
    /\ Len(history.past) + Len(history.future) = MAX_HISTORY

(***************************************************************************)
(* The plan editor: tools, draw phase, clicks on the stage                 *)
(***************************************************************************)

ToolTypes == {"select", "draw_wall", "draw_door", "draw_window", "draw_rect", "draw_label"}

TwoClickTools == {"draw_wall", "draw_door", "draw_window"}

\* App state wallThickness, windowHeight, doorSwing, labelText as initialised.
InitialWallThicknessMm == 200

InitialWindowHeightMm == 1200

LabelFontSize == 6

defaultWallThickness == Mm(InitialWallThicknessMm)

defaultWindowHeight == Mm(InitialWindowHeightMm)

defaultDoorSwing == "left"

defaultLabelText == <<"R", "o", "o", "m">>

\* snapResult === null
NoSnap == [set |-> FALSE]

\* The snap points the pointer is clicked at: two points half a grid step of
\* the model apart, and one 500 mm beyond the end of the wall of WallItem.
SnapPoints ==
    {<<Mm(1000), Mm(50)>>, <<Mm(1000) + 1, Mm(50)>>, <<Mm(4500), Mm(50)>>}

SnapResults == {NoSnap} \cup {[set |-> TRUE, point |-> pt] : pt \in SnapPoints}

ElementCount(s) == Len(s.walls) + Len(s.doors) + Len(s.windows) + Len(s.labels)

\* crypto.randomUUID(): an id no element of the state has.
FreshId(s, k) == Len(s.walls) + Len(s.doors) + Len(s.windows) + Len(s.labels) + k

\* What one run of onStageClick does: the phase it sets, whether it calls
\* onToolComplete, and the updater it dispatches, if any.
Clicked(phase, complete) == [drawPhase |-> phase, complete |-> complete, add |-> FALSE]

ClickedAdding(updater) ==
    [drawPhase |-> [phase |-> "awaiting_start"], complete |-> TRUE, add |-> TRUE,
     updater |-> updater]

openingWidth(start, end, shapeStart, shapeEnd) ==
    Hypot(shapeEnd[1] - shapeStart[1], shapeEnd[2] - shapeStart[2])

\* The branch of the second click of draw_wall, draw_door and draw_window.
secondClick(tool, start, end, s) ==
    IF Hypot(end[1] - start[1], end[2] - start[2]) < Mm(MinRawLengthMm)
    THEN Clicked([phase |-> "drawing", startPoint |-> start], FALSE)
    ELSE Const(IF tool \in {"draw_door", "draw_window"}
               THEN projectOpeningToNearestWall(start, end, s.walls)
               ELSE [start |-> start, end |-> end],
               LAMBDA projectedOpening :
         CASE tool = "draw_wall" ->
                  ClickedAdding([kind |-> "addWall",
                                 item |-> [id |-> FreshId(s, 1),
                                           start |-> projectedOpening.start,
                                           end |-> projectedOpening.end,
                                           thickness |-> defaultWallThickness]])
           [] tool = "draw_door" ->
                  ClickedAdding([kind |-> "addDoor",
                                 item |-> [id |-> FreshId(s, 1),
                                           start |-> projectedOpening.start,
                                           end |-> projectedOpening.end,
                                           width |-> openingWidth(start, end,
                                                         projectedOpening.start,
                                                         projectedOpening.end),
                                           swing |-> defaultDoorSwing]])
           [] tool = "draw_window" ->
                  ClickedAdding([kind |-> "addWindow",
                                 item |-> [id |-> FreshId(s, 1),
                                           start |-> projectedOpening.start,
                                           end |-> projectedOpening.end,
                                           width |-> openingWidth(start, end,
                                                         projectedOpening.start,
                                                         projectedOpening.end),
                                           height |-> defaultWindowHeight]]))

rectWalls(firstCorner, pt, s) ==
    LET x1 == firstCorner[1]
        y1 == firstCorner[2]
        x2 == pt[1]
        y2 == pt[2]
        t == defaultWallThickness
    IN  <<[id |-> FreshId(s, 1), start |-> <<x1, y1>>, end |-> <<x2, y1>>, thickness |-> t],
          [id |-> FreshId(s, 2), start |-> <<x2, y1>>, end |-> <<x2, y2>>, thickness |-> t],
          [id |-> FreshId(s, 3), start |-> <<x2, y2>>, end |-> <<x1, y2>>, thickness |-> t],
          [id |-> FreshId(s, 4), start |-> <<x1, y2>>, end |-> <<x1, y1>>, thickness |-> t]>>

onStageClick(tool, phase, snap, s) ==
    IF tool = "select" THEN Clicked(phase, FALSE)
    ELSE IF ~snap.set THEN Clicked(phase, FALSE)
    ELSE IF tool \in TwoClickTools
    THEN IF phase.phase # "drawing"
         THEN Clicked([phase |-> "drawing", startPoint |-> snap.point], FALSE)
         ELSE secondClick(tool, phase.startPoint, snap.point, s)
    ELSE IF tool = "draw_rect"
    THEN IF phase.phase # "rect_first"
         THEN Clicked([phase |-> "rect_first", firstCorner |-> snap.point], FALSE)
         ELSE ClickedAdding([kind |-> "addWalls",
                             items |-> rectWalls(phase.firstCorner, snap.point, s)])
    ELSE ClickedAdding([kind |-> "addLabel",
                        item |-> [id |-> FreshId(s, 1), x |-> snap.point[1],
                                  y |-> snap.point[2], text |-> defaultLabelText,
                                  fontSize |-> LabelFontSize]])

\* The effect on [activeTool].
toolEffect(tool) ==
    IF tool = "select" THEN [phase |-> "idle"] ELSE [phase |-> "awaiting_start"]

\* The history entries a drawing session may add.
MaxDrawn == 1

\* handleActivateTool(tool); React runs the effect only when activeTool changed.
ActivateTool ==
    \E tool \in ToolTypes :
        /\ ~toolEffectDue
        /\ activeTool' = tool
        /\ toolEffectDue' = (tool # activeTool)
        /\ UNCHANGED <<drawPhase, history, view3dVars, intervalVars, anchorVars, script>>

ToolEffect ==
    /\ toolEffectDue
    /\ drawPhase' = toolEffect(activeTool)
    /\ toolEffectDue' = FALSE
    /\ UNCHANGED <<activeTool, history, view3dVars, intervalVars, anchorVars, script>>

\* onKey with e.key === "Escape"
Escape ==
    /\ ~toolEffectDue
    /\ drawPhase' = [phase |-> "awaiting_start"]
    /\ UNCHANGED <<activeTool, toolEffectDue, history, view3dVars, intervalVars, anchorVars, script>>

\* onStageClick, with onAddWall, onAddWalls, onAddDoor, onAddWindow, onAddLabel
\* and onToolComplete = () => setActiveTool("select").
StageClickAt(snap) ==
    /\ ~toolEffectDue
    /\ Const(onStageClick(activeTool, drawPhase, snap, history.present), LAMBDA click :
         /\ click.add => Len(history.past) < MaxDrawn
         /\ drawPhase' = click.drawPhase
         /\ history' = IF click.add
                       THEN historyReducer(history, [type |-> "MUTATE",
                                                     updater |-> click.updater])
                       ELSE history
         /\ activeTool' = IF click.complete THEN "select" ELSE activeTool
         /\ toolEffectDue' = (click.complete /\ activeTool # "select"))
    /\ UNCHANGED <<view3dVars, intervalVars, anchorVars, script>>

StageClick == \E snap \in SnapResults : StageClickAt(snap)

\* The entries the properties panel may add to those drawn.
MaxPanelEdits == 1

\* The value typed in the End X field of the properties panel.
EndXTyped == Mm(2000)

\* DoorProperties and WindowProperties, End X: onBlur runs
\* onUpdate({ end: [Number(e.target.value), item.end[1]] }), which is
\* updateDoor or updateWindow of the selected element.
EditEndX ==
    /\ ~toolEffectDue
    /\ activeTool = "select"
    /\ Len(history.past) < MaxDrawn + MaxPanelEdits
    /\ \E type \in {"door", "window"} :
         LET list == IF type = "door" THEN history.present.doors
                     ELSE history.present.windows
         IN  \E i \in 1..Len(list) :
                 history' = historyReducer(history,
                     [type |-> "MUTATE",
                      updater |-> [kind |-> IF type = "door" THEN "updateDoor"
                                            ELSE "updateWindow",
                                   id |-> list[i].id,
                                   patch |-> [end |-> <<EndXTyped, list[i].end[2]>>]]])
    /\ UNCHANGED <<editorVars, view3dVars, intervalVars, anchorVars, script>>

\* initFromScript(parsed) while the editor is shown.
LoadScript == ~toolEffectDue /\ Reset

InitEditor ==
    /\ PlanModeIdle
    /\ View3DIdle
    /\ IntervalIdle
    /\ AnchorIdle

NextEditor == ActivateTool \/ ToolEffect \/ Escape \/ StageClick \/ EditEndX \/ LoadScript

SpecEditor == InitEditor /\ [][NextEditor]_vars

(***************************************************************************)
(* Properties of the editor                                                *)
(***************************************************************************)

\* A phase with a pending point is there only under its own tool.
PendingPointUnderItsTool ==
    ~toolEffectDue =>
        /\ drawPhase.phase = "drawing" => activeTool \in TwoClickTools
        /\ drawPhase.phase = "rect_first" => activeTool = "draw_rect"

\* C28: once the effects have run, activeTool = "select" implies that the
\* draw phase is idle, and a phase with a pending point (drawing, rect_first)
\* is there only while its draw tool is active.
C28_SelectMeansIdle ==
    /\ ~toolEffectDue => (activeTool = "select" => drawPhase.phase = "idle")
    /\ PendingPointUnderItsTool

SquaredDistance(a, b) == (b[1] - a[1]) * (b[1] - a[1]) + (b[2] - a[2]) * (b[2] - a[2])

\* The step has added one element, to the list of the tool, in one history entry.
AddedOneElement(tool) ==
    LET s == history.present
        t == history'.present
    IN  /\ history'.past = Append(history.past, s)
        /\ history'.future = <<>>
        /\ ElementCount(t) = ElementCount(s) + 1
        /\ t.labels = s.labels
        /\ tool = "draw_wall" =>
               /\ Len(t.walls) = Len(s.walls) + 1
               /\ SubSeq(t.walls, 1, Len(s.walls)) = s.walls
        /\ tool = "draw_door" =>
               /\ Len(t.doors) = Len(s.doors) + 1
               /\ SubSeq(t.doors, 1, Len(s.doors)) = s.doors
        /\ tool = "draw_window" =>
               /\ Len(t.windows) = Len(s.windows) + 1
               /\ SubSeq(t.windows, 1, Len(s.windows)) = s.windows

\* What a click at a snap point under draw_wall, draw_door or draw_window,
\* and a press of Escape, do.
TwoClickSteps ==
    /\ \A snap \in SnapResults :
         (StageClickAt(snap) /\ snap.set /\ activeTool \in TwoClickTools) =>
             IF drawPhase.phase # "drawing"
             THEN /\ drawPhase' = [phase |-> "drawing", startPoint |-> snap.point]
                  /\ history' = history
                  /\ activeTool' = activeTool
             ELSE IF SquaredDistance(drawPhase.startPoint, snap.point)
                         >= Mm(1) * Mm(1)
             THEN /\ AddedOneElement(activeTool)
                  /\ drawPhase' = [phase |-> "awaiting_start"]
                  /\ activeTool' = "select"
             ELSE /\ history' = history
                  /\ drawPhase' = drawPhase
                  /\ activeTool' = activeTool
    /\ Escape => history' = history

StoredWidthsAgree ==
    /\ \A i \in 1..Len(history.present.doors) :
         LET door == history.present.doors[i]
         IN  door.width * door.width = SquaredDistance(door.start, door.end)
    /\ \A i \in 1..Len(history.present.windows) :
         LET win == history.present.windows[i]
         IN  win.width * win.width = SquaredDistance(win.start, win.end)

\* The clicks and Escape do as C29 says.
TwoClickStepsHold == [][TwoClickSteps]_vars

\* C29: under draw_wall, draw_door and draw_window the first click moves the
\* phase to drawing and adds nothing; a second click at least 1 mm from the
\* start adds exactly one element in one history entry, sets the phase to
\* awaiting_start and completes the tool; a second click nearer than 1 mm adds
\* nothing and leaves the phase in drawing; Escape adds nothing; and a stored
\* door or window always has width equal to the distance between its stored
\* endpoints.
C29_TwoClickProtocol == [][TwoClickSteps /\ StoredWidthsAgree']_vars

(***************************************************************************)
(* The script: serialiser and parser                                       *)
(***************************************************************************)

\* `${x}` of a number: an optional minus sign and the digits, with a
\* fraction when there is one.
NumberText(x) == [minus |-> x < 0, digits |-> Abs(x)]

\* `(${x},${y})`
CoordText(x, y) == <<NumberText(x), NumberText(y)>>

\* parseFloat of a match of -?\d+(?:\.\d+)?
parseSigned(text) == IF text.minus THEN 0 - text.digits ELSE text.digits

\* parseFloat of a match of KEYWORD\s+(\d+(?:\.\d+)?), or the value kept when
\* the text after the keyword does not match (it starts with a minus sign).
parseUnsigned(text, kept) == IF text.minus THEN kept ELSE text.digits

\* extractCoords(line)
extractCoords(line) ==
    [i \in 1..Len(line.coords) |->
        <<parseSigned(line.coords[i][1]), parseSigned(line.coords[i][2])>>]

\* line.match(/"([^"]*)"/): the characters between the first two quotes.
RECURSIVE UpToQuote(_, _)
UpToQuote(chars, i) ==
    IF i > Len(chars) THEN [found |-> FALSE]
    ELSE IF chars[i] = "\"" THEN [found |-> TRUE, at |-> i]
    ELSE UpToQuote(chars, i + 1)

firstQuoted(chars) ==
    Const(UpToQuote(chars, 1), LAMBDA open :
        IF ~open.found THEN [found |-> FALSE]
        ELSE Const(UpToQuote(chars, open.at + 1), LAMBDA close :
             IF ~close.found THEN [found |-> FALSE]
             ELSE [found |-> TRUE, text |-> SubSeq(chars, open.at + 1, close.at - 1)]))

ParsedNorthAngle == 90

ParsedWallThicknessMm == 200

ParsedWindowHeightMm == 1200

DEFAULT_LABEL_FONT_SIZE == 6

\* The text "Room"
RoomText == <<"R", "o", "o", "m">>

ParserStart ==
    [lot |-> NoLot,
     northAngle |-> ParsedNorthAngle,
     setbacks |-> [front |-> Mm(3000), rear |-> Mm(2000), left |-> Mm(1500),
                   right |-> Mm(1500)],
     walls |-> <<>>, doors |-> <<>>, windows |-> <<>>, labels |-> <<>>]

\* crypto.randomUUID() in the parser: an id no drawn element has.
ParsedId(acc) ==
    0 - (Len(acc.walls) + Len(acc.doors) + Len(acc.windows) + Len(acc.labels) + 1)

SeqMin(list) == CHOOSE v \in {list[i] : i \in 1..Len(list)} :
                    \A i \in 1..Len(list) : v <= list[i]

SeqMax(list) == CHOOSE v \in {list[i] : i \in 1..Len(list)} :
                    \A i \in 1..Len(list) : v >= list[i]

\* The body of `for (const line of lines)`.
parseLine(acc, line) ==
    CASE line.kw = "WALL" ->
             Const(extractCoords(line), LAMBDA coords :
                 IF Len(coords) < 2 THEN acc
                 ELSE [acc EXCEPT !.walls = Append(@,
                          [id |-> ParsedId(acc), start |-> coords[1], end |-> coords[2],
                           thickness |-> parseUnsigned(line.thick,
                                                       Mm(ParsedWallThicknessMm))])])
      [] line.kw = "DOOR" ->
             Const(extractCoords(line), LAMBDA coords :
                 IF Len(coords) < 2 THEN acc
                 ELSE [acc EXCEPT !.doors = Append(@,
                          [id |-> ParsedId(acc), start |-> coords[1], end |-> coords[2],
                           width |-> Hypot(coords[2][1] - coords[1][1],
                                           coords[2][2] - coords[1][2]),
                           swing |-> IF line.swing \in {"left", "right", "double"}
                                     THEN line.swing ELSE "left"])])
      [] line.kw = "WINDOW" ->
             Const(extractCoords(line), LAMBDA coords :
                 IF Len(coords) < 2 THEN acc
                 ELSE [acc EXCEPT !.windows = Append(@,
                          [id |-> ParsedId(acc), start |-> coords[1], end |-> coords[2],
                           width |-> Hypot(coords[2][1] - coords[1][1],
                                           coords[2][2] - coords[1][2]),
                           height |-> Mm(ParsedWindowHeightMm)])])
      [] line.kw = "LABEL" ->
             Const(extractCoords(line), LAMBDA coords :
                 IF Len(coords) < 1 THEN acc
                 ELSE Const(firstQuoted(line.rest), LAMBDA textMatch :
                      [acc EXCEPT !.labels = Append(@,
                          [id |-> ParsedId(acc), x |-> coords[1][1], y |-> coords[1][2],
                           text |-> IF textMatch.found THEN textMatch.text ELSE RoomText,
                           fontSize |-> DEFAULT_LABEL_FONT_SIZE])]))
      [] line.kw = "LOT" ->
             Const(extractCoords(line), LAMBDA coords :
                 IF Len(coords) < 2 THEN acc
                 ELSE LET xs == [i \in 1..Len(coords) |-> coords[i][1]]
                          ys == [i \in 1..Len(coords) |-> coords[i][2]]
                      IN  [acc EXCEPT !.lot =
                              [set |-> TRUE, x |-> SeqMin(xs), y |-> SeqMin(ys),
                               width |-> SeqMax(xs) - SeqMin(xs),
                               height |-> SeqMax(ys) - SeqMin(ys),
                               northAngle |-> acc.northAngle]])
      [] line.kw = "SETBACK" ->
             [acc EXCEPT !.setbacks =
                 [front |-> parseUnsigned(line.front, @.front),
                  rear |-> parseUnsigned(line.rear, @.rear),
                  left |-> parseUnsigned(line.left, @.left),
                  right |-> parseUnsigned(line.right, @.right)]]
      [] line.kw = "NORTH" ->
             [acc EXCEPT !.northAngle = parseUnsigned(line.angle, @)]
      [] OTHER -> acc

RECURSIVE parseLines(_, _, _)
parseLines(lines, i, acc) ==
    IF i > Len(lines) THEN acc
    ELSE parseLines(lines, i + 1, parseLine(acc, lines[i]))

parseScriptToPlanState(text) ==
    Const(parseLines(text, 1, ParserStart), LAMBDA acc :
        [lot |-> IF acc.lot.set THEN [acc.lot EXCEPT !.northAngle = acc.northAngle]
                 ELSE acc.lot,
         setbacks |-> acc.setbacks,
         walls |-> acc.walls,
         doors |-> acc.doors,
         windows |-> acc.windows,
         labels |-> acc.labels])

lotLines(state) ==
    IF ~state.lot.set THEN <<>>
    ELSE LET x == state.lot.x
             y == state.lot.y
             width == state.lot.width
             height == state.lot.height
         IN  <<[kw |-> "LOT",
                coords |-> <<CoordText(x, y), CoordText(x + width, y),
                             CoordText(x + width, y + height),
                             CoordText(x, y + height)>>],
               [kw |-> "SETBACK",
                front |-> NumberText(state.setbacks.front),
                rear |-> NumberText(state.setbacks.rear),
                left |-> NumberText(state.setbacks.left),
                right |-> NumberText(state.setbacks.right)],
               [kw |-> "NORTH", angle |-> NumberText(state.lot.northAngle)],
               [kw |-> ""]>>

planStateToScript(state) ==
    <<[kw |-> "UNIT"]>>
    \o lotLines(state)
    \o [i \in 1..Len(state.walls) |->
          [kw |-> "WALL",
           coords |-> <<CoordText(state.walls[i].start[1], state.walls[i].start[2]),
                        CoordText(state.walls[i].end[1], state.walls[i].end[2])>>,
           thick |-> NumberText(state.walls[i].thickness)]]
    \o [i \in 1..Len(state.doors) |->
          [kw |-> "DOOR",
           coords |-> <<CoordText(state.doors[i].start[1], state.doors[i].start[2]),
                        CoordText(state.doors[i].end[1], state.doors[i].end[2])>>,
           swing |-> state.doors[i].swing]]
    \o [i \in 1..Len(state.windows) |->
          [kw |-> "WINDOW",
           coords |-> <<CoordText(state.windows[i].start[1], state.windows[i].start[2]),
                        CoordText(state.windows[i].end[1], state.windows[i].end[2])>>]]
    \o [i \in 1..Len(state.labels) |->
          [kw |-> "LABEL",
           coords |-> <<CoordText(state.labels[i].x, state.labels[i].y)>>,
           rest |-> <<"\"">> \o state.labels[i].text \o <<"\"">>]]

(***************************************************************************)
(* Plan mode and script mode                                               *)
(***************************************************************************)

\* The changes made in plan mode before the script is generated, and the
\* elements the plan may hold.
MaxScriptEdits == 2

MaxScriptElements == 1

LotChoice ==
    [set |-> TRUE, x |-> 0, y |-> 0, width |-> Mm(10000), height |-> Mm(16000),
     northAngle |-> ParsedNorthAngle]

SetbackChoice ==
    [front |-> Mm(4000), rear |-> Mm(2000), left |-> Mm(1500), right |-> Mm(1500)]

\* The window height field of the toolbar: the initial 1200 and 1500.
WindowHeightChoices == {Mm(InitialWindowHeightMm), Mm(1500)}

\* handleCreateLot, handleSetbackChange (once the lot is created) and the
\* elements added by drawing.
PlanEdits(s) ==
    {[kind |-> "setLot", lot |-> LotChoice]}
    \cup (IF s.lot.set THEN {[kind |-> "setSetbacks", setbacks |-> SetbackChoice]}
          ELSE {})
    \cup
    {[kind |-> "addWall", item |-> WallItem(FreshId(s, 1))],
     [kind |-> "addDoor",
      item |-> [id |-> FreshId(s, 1), start |-> Pt(1000, 0), end |-> Pt(1900, 0),
                width |-> Mm(900), swing |-> "double"]],
     [kind |-> "addLabel",
      item |-> [id |-> FreshId(s, 1), x |-> Mm(2000), y |-> Mm(0 - 1500),
                text |-> defaultLabelText, fontSize |-> LabelFontSize]]}
    \cup {[kind |-> "addWindow",
           item |-> [id |-> FreshId(s, 1), start |-> Pt(2000, 0), end |-> Pt(3200, 0),
                     width |-> Mm(1200), height |-> h]] : h \in WindowHeightChoices}

\* A change of the plan in plan mode, and the effect on [appMode, planState]
\* that follows it: setScript(planStateToScript(planState)).
EditPlan ==
    /\ Len(history.past) < MaxScriptEdits
    /\ \E updater \in PlanEdits(history.present) :
         /\ updater.kind \notin {"setLot", "setSetbacks"} =>
                ElementCount(history.present) < MaxScriptElements
         /\ history' = historyReducer(history, [type |-> "MUTATE", updater |-> updater])
    /\ script' = planStateToScript(history'.present)
    /\ UNCHANGED <<editorVars, view3dVars, intervalVars, anchorVars>>

\* handleScriptGenerate, the backend having accepted the script:
\* initFromScript(parseScriptToPlanState(script)).
ScriptGenerate ==
    /\ history' = historyReducer(history,
                      [type |-> "RESET", payload |-> parseScriptToPlanState(script)])
    /\ UNCHANGED <<script, editorVars, view3dVars, intervalVars, anchorVars>>

\* Back in plan mode: the effect on [appMode, planState].
ShowPlanMode ==
    /\ script' = planStateToScript(history.present)
    /\ UNCHANGED <<history, editorVars, view3dVars, intervalVars, anchorVars>>

InitScript ==
    /\ PlanModeIdle
    /\ View3DIdle
    /\ IntervalIdle
    /\ AnchorIdle

NextScript == EditPlan \/ ScriptGenerate \/ ShowPlanMode

SpecScript == InitScript /\ [][NextScript]_vars

(***************************************************************************)
(* Properties of the script round trip                                     *)
(***************************************************************************)

SameFields(a, b, fields) ==
    /\ Len(a) = Len(b)
    /\ \A i \in 1..Len(a) : \A f \in fields : a[i][f] = b[i][f]

SamePlanData(a, b) ==
    /\ a.lot = b.lot
    /\ a.setbacks = b.setbacks
    /\ SameFields(a.walls, b.walls, {"start", "end", "thickness"})
    /\ SameFields(a.doors, b.doors, {"start", "end", "width", "swing"})
    /\ SameFields(a.windows, b.windows, {"start", "end", "width", "height"})
    /\ SameFields(a.labels, b.labels, {"x", "y", "text"})

\* C30: for every plan-mode state, parsing the script written from it gives
\* the same lot and setbacks and the same walls, doors, windows and labels in
\* the same order, element ids aside.
C30_ScriptRoundTrip ==
    SamePlanData(history.present,
                 parseScriptToPlanState(planStateToScript(history.present)))

====
